---- MODULE Spec2Model ----
(***************************************************************************)
(* Incremental FastF1 ingestion pipeline of the f1_analytics application:  *)
(* gap detection, planner, session loader (Prefect task with retries and   *)
(* input memo), master import flow, and driver identity resolution.        *)
(***************************************************************************)
EXTENDS Integers, Sequences, FiniteSets, TLC

None == "None"

\* ------------------------------------------------------------------------
\* Text: Python strings are sequences of one-character strings.
\* ------------------------------------------------------------------------
UpperChars == <<"A","B","C","D","E","F","G","H","I","J","K","L","M","N","O","P","Q","R","S","T","U","V","W","X","Y","Z">>
LowerChars == <<"a","b","c","d","e","f","g","h","i","j","k","l","m","n","o","p","q","r","s","t","u","v","w","x","y","z">>

UpperSet == {UpperChars[i] : i \in 1..26}
LowerSet == {LowerChars[i] : i \in 1..26}

\* the lower-case and upper-case partner of each letter
LowerOf == [c \in UpperSet |-> LowerChars[CHOOSE i \in 1..26 : UpperChars[i] = c]]
UpperOf == [c \in LowerSet |-> UpperChars[CHOOSE i \in 1..26 : LowerChars[i] = c]]

IsUpper(c) == c \in UpperSet
IsLower(c) == c \in LowerSet
IsCased(c) == c \in UpperSet \/ c \in LowerSet

\* str.lower() on one character
LowerChar(c) == IF c \in UpperSet THEN LowerOf[c] ELSE c
\* str.upper() on one character
UpperChar(c) == IF c \in LowerSet THEN UpperOf[c] ELSE c

\* str.lower()
Lower(s) == [i \in 1..Len(s) |-> LowerChar(s[i])]

\* Python's "kw in s" on strings: kw occurs as a contiguous substring of s
Contains(s, kw) ==
    \E i \in 0..(Len(s) - Len(kw)) : \A j \in 1..Len(kw) : s[i + j] = kw[j]

\* ------------------------------------------------------------------------
\* Session loader: failure classification (processing/loaders.py)
\* ------------------------------------------------------------------------

non_retryable_keywords ==
    << <<"n","o","t"," ","f","o","u","n","d">>,
       <<"d","o","e","s"," ","n","o","t"," ","e","x","i","s","t">>,
       <<"n","o"," ","d","a","t","a"," ","a","v","a","i","l","a","b","l","e">>,
       <<"i","n","v","a","l","i","d"," ","r","o","u","n","d">>,
       <<"i","n","v","a","l","i","d"," ","e","v","e","n","t">> >>

MsgSessionNotFound == <<"S","e","s","s","i","o","n"," ","N","O","T"," ","F","o","u","n","d">>
MsgDoesNotExist == <<"E","v","e","n","t"," ","d","o","e","s"," ","n","o","t"," ","e","x","i","s","t">>
MsgNoData == <<"N","o"," ","d","a","t","a"," ","a","v","a","i","l","a","b","l","e">>
MsgInvalidRound == <<"I","n","v","a","l","i","d"," ","r","o","u","n","d"," ","9","9">>
MsgInvalidEvent == <<"i","n","v","a","l","i","d"," ","e","v","e","n","t">>
MsgTimeout == <<"C","o","n","n","e","c","t","i","o","n"," ","t","i","m","e","o","u","t">>
MsgFoundNot == <<"f","o","u","n","d"," ","n","o","t">>
MsgRateLimit == <<"l","i","m","i","t",":"," ","n","o","t"," ","f","o","u","n","d">>

\* messages carried by the provider's exceptions
ErrorMessages ==
    {MsgSessionNotFound, MsgDoesNotExist, MsgNoData, MsgInvalidRound,
     MsgInvalidEvent, MsgTimeout, MsgFoundNot, MsgRateLimit}

\* what the provider boundary raises: fastf1.req.RateLimitExceededError is a
\* distinct type, every other failure is an untyped Exception with a message
ProviderErrors ==
    [type : {"Exception"}, msg : ErrorMessages \ {MsgRateLimit}]
    \cup [type : {"RateLimitExceededError"}, msg : {MsgRateLimit, MsgTimeout}]

\* any(keyword in error_msg for keyword in non_retryable_keywords)
HasNonRetryableKeyword(msg) ==
    \E k \in 1..Len(non_retryable_keywords) :
        Contains(Lower(msg), non_retryable_keywords[k])

\* variant: the keyword test comes before the rate-limit clause
LoaderRaises_keywords_first(exc) ==
    IF HasNonRetryableKeyword(exc.msg) THEN "NonRetryableError"
    ELSE IF exc.type = "RateLimitExceededError" THEN "RateLimitExceededError"
    ELSE "Exception"

\* the except clauses of load_fastf1_session: the class of the exception that
\* leaves the task body when the provider raises exc
LoaderRaises(exc) ==
    IF exc.type = "RateLimitExceededError" THEN "RateLimitExceededError"
    ELSE IF HasNonRetryableKeyword(exc.msg) THEN "NonRetryableError"
    ELSE "Exception"

\* retries=settings.FASTF1_TASK_RETRIES on the task decorator; the settings
\* module sets the value (the test suite runs the task with retries=1)
FASTF1_TASK_RETRIES == 1

\* variant: the task runner retries without a limit
TaskRetries_unbounded(raised, attempt) == TRUE

\* The decorator sets retries and no retry condition: the task runner re-runs
\* the body after an exception of any class while retries remain.
TaskRetries(raised, attempt) == attempt < FASTF1_TASK_RETRIES

\* variant: a session type outside the table is passed through
get_fastf1_session_identifier_passthrough(session_type) ==
    CASE session_type = "Practice 1" -> "FP1"
      [] session_type = "Practice 2" -> "FP2"
      [] session_type = "Practice 3" -> "FP3"
      [] session_type = "Qualifying" -> "Q"
      [] session_type = "Sprint Qualifying" -> "SQ"
      [] session_type = "Sprint" -> "S"
      [] session_type = "Race" -> "R"
      [] OTHER -> session_type

\* get_fastf1_session_identifier
get_fastf1_session_identifier(session_type) ==
    CASE session_type = "Practice 1" -> "FP1"
      [] session_type = "Practice 2" -> "FP2"
      [] session_type = "Practice 3" -> "FP3"
      [] session_type = "Qualifying" -> "Q"
      [] session_type = "Sprint Qualifying" -> "SQ"
      [] session_type = "Sprint" -> "S"
      [] session_type = "Race" -> "R"
      [] OTHER -> "R"

\* ------------------------------------------------------------------------
\* Driver identity resolution (processing/driver_matching.py)
\* ------------------------------------------------------------------------
Min(S) == CHOOSE x \in S : \A y \in S : x <= y
Max(S) == CHOOSE x \in S : \A y \in S : x >= y

\* str.strip()
Strip(s) ==
    LET kept == {i \in 1..Len(s) : s[i] # " "}
    IN  IF kept = {} THEN << >> ELSE SubSeq(s, Min(kept), Max(kept))

\* str.title(): a cased character is upper-cased after an uncased one (or at
\* the start) and lower-cased after a cased one
Title(s) ==
    [i \in 1..Len(s) |->
        IF ~IsCased(s[i]) THEN s[i]
        ELSE IF i = 1 \/ ~IsCased(s[i - 1]) THEN UpperChar(s[i])
        ELSE LowerChar(s[i])]

\* normalize_name
normalize_name(name) == IF name = << >> THEN << >> ELSE Title(Strip(name))

\* str.split(): the whitespace-separated tokens
RECURSIVE Split(_)
Split(s) ==
    IF s = << >> THEN << >>
    ELSE IF Head(s) = " " THEN Split(Tail(s))
    ELSE LET stops == {i \in 1..Len(s) : s[i] = " "}
             n == IF stops = {} THEN Len(s) + 1 ELSE Min(stops)
         IN  <<SubSeq(s, 1, n - 1)>> \o Split(SubSeq(s, n, Len(s)))

\* ' '.join(parts)
RECURSIVE Join(_)
Join(parts) ==
    IF parts = << >> THEN << >>
    ELSE IF Len(parts) = 1 THEN parts[1]
    ELSE parts[1] \o <<" ">> \o Join(Tail(parts))

\* "' ' in full_name"
HasSpace(s) == \E i \in 1..Len(s) : s[i] = " "

\* field__iexact=value
IExact(a, b) == Lower(a) = Lower(b)

\* code-point order of the characters used in names
Alphabet == <<" ", ".">> \o UpperChars \o LowerChars

CodeOf == [c \in {Alphabet[i] : i \in 1..Len(Alphabet)} |->
             CHOOSE i \in 1..Len(Alphabet) : Alphabet[i] = c]

CharCode(c) == CodeOf[c]

\* a < b for strings
RECURSIVE StrLess(_, _)
StrLess(a, b) ==
    IF b = << >> THEN FALSE
    ELSE IF a = << >> THEN TRUE
    ELSE IF Head(a) # Head(b) THEN CharCode(Head(a)) < CharCode(Head(b))
    ELSE StrLess(Tail(a), Tail(b))

\* Driver.Meta.ordering = ['last_name', 'first_name']
DriverBefore(ds, a, b) ==
    \/ StrLess(ds[a].last_name, ds[b].last_name)
    \/ /\ ds[a].last_name = ds[b].last_name
       /\ StrLess(ds[a].first_name, ds[b].first_name)

\* queryset.first(): the rows of S that no row of S precedes (rows that tie
\* in the ordering come in an order the database picks)
First(ds, S) == {d \in S : \A e \in S : ~DriverBefore(ds, e, d)}

\* Driver.objects.create(...) in find_driver_by_fastf1_data
NewDriver(full_name, driver_number, abbreviation) ==
    LET parts == IF HasSpace(full_name) THEN Split(full_name)
                 ELSE <<full_name, << >> >>
    IN  [full_name |-> full_name,
         first_name |-> parts[1],
         last_name |-> Join(Tail(parts)),
         driver_number |-> driver_number,
         abbreviation |-> abbreviation]

\* a result of find_driver_by_fastf1_data: the driver's id (0 for None), the
\* match_method and the Driver table afterwards
Outcome(d, method, ds) == [driver |-> d, method |-> method, store |-> ds]

\* 1. Driver.objects.filter(full_name__iexact=full_name)
ByName(ds, full_name) ==
    {d \in DOMAIN ds : IExact(ds[d].full_name, full_name)}

\* 2. driver_number and Driver.objects.filter(driver_number=driver_number)
ByNumber(ds, driver_number) ==
    IF driver_number = << >> THEN {}
    ELSE {d \in DOMAIN ds : ds[d].driver_number = driver_number}

\* 3. abbreviation and Driver.objects.filter(abbreviation__iexact=abbreviation)
ByAbbreviation(ds, abbreviation) ==
    IF abbreviation = << >> THEN {}
    ELSE {d \in DOMAIN ds : IExact(ds[d].abbreviation, abbreviation)}

\* 4. normalize_name(existing.full_name) == normalize_name(full_name)
ByNormalized(ds, full_name) ==
    {d \in DOMAIN ds : normalize_name(ds[d].full_name) = normalize_name(full_name)}

\* variant: any driver sharing the last name is taken
ByUniqueLastName_any(ds, last_name) ==
    {d \in DOMAIN ds : IExact(ds[d].last_name, last_name)}

\* 5. matches = Driver.objects.filter(last_name__iexact=last_name), taken
\* when matches.count() == 1
ByUniqueLastName(ds, last_name) ==
    LET matches == {d \in DOMAIN ds : IExact(ds[d].last_name, last_name)}
    IN  IF Cardinality(matches) = 1 THEN matches ELSE {}

\* variant: the driver number is looked up before the name
find_driver_number_first(ds, full_name, driver_number, abbreviation, create_if_missing) ==
    IF ByNumber(ds, driver_number) # {}
    THEN {Outcome(d, "driver_number", ds) :
            d \in First(ds, ByNumber(ds, driver_number))}
    ELSE IF ByName(ds, full_name) # {}
    THEN {Outcome(d, "exact_name", ds) : d \in First(ds, ByName(ds, full_name))}
    ELSE {Outcome(0, "no_match", ds)}

\* find_driver_by_fastf1_data on the Driver table ds (ids 1..Len(ds)); a
\* missing driver_number or abbreviation is the empty string. The set holds
\* every result the call can give.
find_driver_by_fastf1_data(ds, full_name, driver_number, abbreviation, create_if_missing) ==
    LET exact == ByName(ds, full_name)
        number == ByNumber(ds, driver_number)
        code == ByAbbreviation(ds, abbreviation)
        normalized == ByNormalized(ds, full_name)
        tokens == Split(full_name)
        surname == ByUniqueLastName(ds, tokens[Len(tokens)])
    IN  IF exact # {}
        THEN {Outcome(d, "exact_name", ds) : d \in First(ds, exact)}
        ELSE IF number # {}
        THEN {Outcome(d, "driver_number", ds) : d \in First(ds, number)}
        ELSE IF code # {}
        THEN {Outcome(d, "abbreviation", ds) : d \in First(ds, code)}
        ELSE IF normalized # {}
        THEN {Outcome(d, "normalized_name", ds) : d \in First(ds, normalized)}
        ELSE IF HasSpace(full_name) /\ tokens = << >>
        THEN {Outcome(0, "IndexError", ds)}
        ELSE IF HasSpace(full_name) /\ surname # {}
        THEN {Outcome(d, "unique_last_name", ds) : d \in surname}
        ELSE IF create_if_missing
        THEN {Outcome(Len(ds) + 1, "created_new",
                      Append(ds, NewDriver(full_name, driver_number,
                                           abbreviation)))}
        ELSE {Outcome(0, "no_match", ds)}

\* the per-driver body of save_driver_info_to_db: resolve with auto-create,
\* then overwrite driver_number and abbreviation with the reported ones; an
\* exception skips the driver. (Team and SessionResult rows are not part of
\* the Driver table.)
SaveOneDriver(ds, report) ==
    {IF o.driver = 0 THEN o.store
     ELSE [o.store EXCEPT ![o.driver].driver_number = report.driver_number,
                          ![o.driver].abbreviation = report.abbreviation] :
        o \in find_driver_by_fastf1_data(ds, report.full_name,
                 report.driver_number, report.abbreviation, TRUE)}

\* save_driver_info_to_db: the Driver tables the loop over the reports can leave
RECURSIVE save_driver_info_to_db(_, _)
save_driver_info_to_db(ds, reports) ==
    IF reports = << >> THEN {ds}
    ELSE UNION {save_driver_info_to_db(d1, Tail(reports)) :
                  d1 \in SaveOneDriver(ds, Head(reports))}

NameMaxVerstappen == <<"M","a","x"," ","V","e","r","s","t","a","p","p","e","n">>
NameLowerMax == <<"m","a","x"," ","v","e","r","s","t","a","p","p","e","n">>
NamePaddedMax == <<" ","M","a","x"," ","V","e","r","s","t","a","p","p","e","n"," ">>
NameInitialMax == <<"M","."," ","V","e","r","s","t","a","p","p","e","n">>
NameJohnSmith == <<"J","o","h","n"," ","S","m","i","t","h">>
NameJaneSmith == <<"J","a","n","e"," ","S","m","i","t","h">>
NameInitialSmith == <<"J","."," ","S","m","i","t","h">>
NameLandoNorris == <<"L","a","n","d","o"," ","N","o","r","r","i","s">>

\* the Driver table the CSV importers leave: canonical names; the identifiers
\* of John Smith are filled in, the others are empty
Roster ==
    << NewDriver(NameMaxVerstappen, << >>, << >>),
       NewDriver(NameJohnSmith, <<"1">>, <<"S","M","I">>),
       NewDriver(NameJaneSmith, << >>, << >>) >>

\* what the provider's results table reports for a session
PayloadDrivers ==
    << [full_name |-> NameMaxVerstappen, driver_number |-> <<"3","3">>,
        abbreviation |-> <<"V","E","R">>] >>

\* reports the resolver is called with
ReportedNames ==
    {NameMaxVerstappen, NameLowerMax, NamePaddedMax, NameInitialMax,
     NameInitialSmith, NameLandoNorris}
ReportedNumbers == {<< >>, <<"1">>, <<"3","3">>}
ReportedCodes == {<< >>, <<"s","m","i">>}

\* ------------------------------------------------------------------------
\* State
\* ------------------------------------------------------------------------
VARIABLES
    sessions,     \* Session rows (joined with Race, Season): the ids persisted
    drivers,      \* Driver table: sequence of rows, the id is the position
    call,         \* arguments of the latest find_driver_by_fastf1_data call
    found,        \* what that call returned: driver id (0 for None), match_method
    weather,      \* SessionWeather rows: the sessions that have one
    load_status,  \* SessionLoadStatus rows: function from the sessions that have one
    cache,        \* memo of the load task: input records with a stored result
    pc,           \* position of the master flow
    run,          \* parameters of the current/last run
    plan,         \* sessions_to_process of the current/last run
    idx,          \* index into plan of the session being processed
    attempt,      \* retries of the load task used so far for the current call
    result,       \* result dict of process_session_gap for the current session
    summary,      \* summary dict of import_fastf1_flow
    runs,         \* runs started so far
    fetches,      \* provider fetches (get_session + load) for the current session
    lastExc,      \* provider exception of the latest failed fetch, NoExc otherwise
    lastRaised,   \* class of the exception that left the task body for it
    notes,        \* rate-limit notifications emitted: "pause" / "resume"
    tables,       \* SessionWeather, SessionLoadStatus and Lap tables, row by row
    lap_i,        \* laps of the payload written so far by save_telemetry_to_db
    remaining,    \* seconds of the rate-limit pause still to sleep
    slept,        \* seconds handed to time.sleep() by the pause so far
    now,          \* timezone.now(), in ticks
    lost          \* notifications of the run or pause whose delivery failed

vars == <<sessions, drivers, call, found, weather, load_status, cache, pc,
          run, plan, idx, attempt, result, summary, runs, fetches, lastExc, lastRaised, notes,
          tables, lap_i, remaining, slept, now, lost>>

\* the pause and the clock, which only the rate limiter and the status
\* bookkeeping checked on its own move
standalone == <<remaining, slept, now>>

\* ------------------------------------------------------------------------
\* Persisted catalogue: Season, Race and Session rows. They are created by
\* the schedule import and only read by the pipeline.
\* ------------------------------------------------------------------------
SeasonYears == {2025}

\* --year values of the operator interface (2099 has no Season row)
Years == {2025, 2099}

\* ids of the Session rows the schedule import can create
SessionIds == {1, 2, 3}

\* Session rows joined with their Race (select_related('race'))
SessionRow(s) ==
    CASE s = 1 -> [year |-> 2025, round_number |-> 0, session_number |-> 1,
                   session_type |-> "Practice 1", event_format |-> "testing",
                   race_name |-> "Pre-Season Testing"]
      [] s = 2 -> [year |-> 2025, round_number |-> 1, session_number |-> 5,
                   session_type |-> "Race", event_format |-> "conventional",
                   race_name |-> "Bahrain"]
      [] s = 3 -> [year |-> 2025, round_number |-> 1, session_number |-> 4,
                   session_type |-> "Qualifying", event_format |-> "conventional",
                   race_name |-> "Bahrain"]

\* round_number=None (no --round option)
NoRound == -1

\* --round values of the operator interface
RoundFilters == {NoRound, 0, 1, 2}

\* Python truthiness of round_number in "if round_number:"
Truthy(round_number) == round_number # NoRound /\ round_number # 0

\* order_by('race__round_number', 'session_number')
SessionBefore(a, b) ==
    \/ SessionRow(a).round_number < SessionRow(b).round_number
    \/ /\ SessionRow(a).round_number = SessionRow(b).round_number
       /\ SessionRow(a).session_number < SessionRow(b).session_number

RECURSIVE OrderedSessions(_)
OrderedSessions(S) ==
    IF S = {} THEN << >>
    ELSE LET m == CHOOSE x \in S : \A y \in S \ {x} : SessionBefore(x, y)
         IN  <<m>> \o OrderedSessions(S \ {m})

\* Session.objects.filter(race__season__year=year)
SessionsOfYear(year) == {s \in sessions : SessionRow(s).year = year}

\* variant: every gap carries the name of its race
MakeGap_named(s, year) ==
    [session_id |-> s,
     year |-> year,
     round_number |-> SessionRow(s).round_number,
     session_type |-> SessionRow(s).session_type,
     session_number |-> SessionRow(s).session_number,
     event_name |-> SessionRow(s).race_name,
     missing_weather |-> TRUE]

\* SessionGap(...) as built in detect_session_data_gaps and in force mode
MakeGap(s, year) ==
    [session_id |-> s,
     year |-> year,
     round_number |-> SessionRow(s).round_number,
     session_type |-> SessionRow(s).session_type,
     session_number |-> SessionRow(s).session_number,
     event_name |-> IF SessionRow(s).event_format = "testing"
                    THEN SessionRow(s).race_name ELSE None,
     missing_weather |-> TRUE]

RECURSIVE MapGaps(_, _)
MapGaps(seq, year) ==
    IF seq = << >> THEN << >>
    ELSE <<MakeGap(Head(seq), year)>> \o MapGaps(Tail(seq), year)

\* variant: reports every session of the season, with or without a weather row
detect_session_data_gaps_all(w, season_year) ==
    IF season_year \notin SeasonYears THEN << >>
    ELSE MapGaps(OrderedSessions(SessionsOfYear(season_year)), season_year)

\* detect_session_data_gaps(season_year) on a store whose SessionWeather rows
\* are those of the sessions in w
detect_session_data_gaps(w, season_year) ==
    IF season_year \notin SeasonYears THEN << >>
    ELSE MapGaps(OrderedSessions({s \in SessionsOfYear(season_year) : s \notin w}),
                 season_year)

\* the rounds of the Race rows of a season
RaceRounds(year) == IF year \in SeasonYears THEN {0, 1} ELSE {}

\* sorted(S) for a set of integers
RECURSIVE Sorted(_)
Sorted(S) ==
    IF S = {} THEN << >>
    ELSE LET m == CHOOSE x \in S : \A y \in S : x <= y
         IN  <<m>> \o Sorted(S \ {m})

\* detect_missing_races(season_year, expected_rounds); expected_rounds=None
\* is NoRound
detect_missing_races(season_year, expected_rounds) ==
    IF season_year \notin SeasonYears THEN << >>
    ELSE IF Truthy(expected_rounds)
         THEN Sorted((1..expected_rounds) \ RaceRounds(season_year))
         ELSE << >>

\* variant: the session numbers of the whole season are taken as existing
MissingForRace_season(year, round) ==
    LET existing_sessions == {SessionRow(s).session_number : s \in SessionsOfYear(year)}
        missing_for_race == Sorted((1..5) \ existing_sessions)
    IN  [i \in 1..Len(missing_for_race) |-> <<round, missing_for_race[i]>>]

\* the (round, session number) pairs missing for one race
MissingForRace(year, round) ==
    LET existing_sessions ==
            {SessionRow(s).session_number :
                s \in {x \in SessionsOfYear(year) : SessionRow(x).round_number = round}}
        missing_for_race == Sorted((1..5) \ existing_sessions)
    IN  [i \in 1..Len(missing_for_race) |-> <<round, missing_for_race[i]>>]

RECURSIVE ConcatMissing(_, _)
ConcatMissing(year, rounds) ==
    IF rounds = << >> THEN << >>
    ELSE MissingForRace(year, Head(rounds)) \o ConcatMissing(year, Tail(rounds))

\* detect_missing_sessions(season_year)
detect_missing_sessions(season_year) ==
    IF season_year \notin SeasonYears THEN << >>
    ELSE ConcatMissing(season_year, Sorted(RaceRounds(season_year)))

\* variant: the sessions still to be created are counted as calls too
generate_gap_report_counting_missing(w, season_year, expected_rounds) ==
    LET session_gaps == detect_session_data_gaps(w, season_year)
        missing_sessions == detect_missing_sessions(season_year)
    IN  [season_year |-> season_year,
         missing_races |-> detect_missing_races(season_year, expected_rounds),
         missing_sessions |-> missing_sessions,
         session_gaps |-> session_gaps,
         total_api_calls_needed |-> Len(session_gaps) + Len(missing_sessions)]

\* generate_gap_report: total_api_calls_needed = len(session_gaps)
generate_gap_report(w, season_year, expected_rounds) ==
    LET session_gaps == detect_session_data_gaps(w, season_year)
    IN  [season_year |-> season_year,
         missing_races |-> detect_missing_races(season_year, expected_rounds),
         missing_sessions |-> detect_missing_sessions(season_year),
         session_gaps |-> session_gaps,
         total_api_calls_needed |-> Len(session_gaps)]

GapIds(gaps) == {gaps[i].session_id : i \in 1..Len(gaps)}

\* force mode: Session.objects.filter(race__season__year=year), narrowed by
\* race__round_number when round_number is truthy
ForceQuery(year, round_number) ==
    IF Truthy(round_number)
    THEN {s \in SessionsOfYear(year) : SessionRow(s).round_number = round_number}
    ELSE SessionsOfYear(year)

\* variant: force mode puts the sessions it adds before the detected gaps
get_sessions_to_process_added_first(w, year, round_number, force) ==
    LET report == generate_gap_report(w, year, NoRound)
        filtered == IF Truthy(round_number)
                    THEN SelectSeq(report.session_gaps,
                                   LAMBDA g : g.round_number = round_number)
                    ELSE report.session_gaps
        added == OrderedSessions(ForceQuery(year, round_number) \ GapIds(filtered))
    IN  IF force THEN MapGaps(added, year) \o filtered ELSE filtered

\* get_sessions_to_process(year, round_number, force)
get_sessions_to_process(w, year, round_number, force) ==
    LET report == generate_gap_report(w, year, NoRound)
        filtered == IF Truthy(round_number)
                    THEN SelectSeq(report.session_gaps,
                                   LAMBDA g : g.round_number = round_number)
                    ELSE report.session_gaps
        added == OrderedSessions(ForceQuery(year, round_number) \ GapIds(filtered))
    IN  IF force THEN filtered \o MapGaps(added, year) ELSE filtered

\* ------------------------------------------------------------------------
\* number of master-flow runs started in one behaviour
MaxRuns == 2

\* a DateTimeField that is null
NoTime == -1

NewStatus == [has_circuit |-> FALSE, has_weather |-> FALSE,
              has_lap_times |-> FALSE, has_telemetry |-> FALSE,
              circuit_loaded_at |-> NoTime, weather_loaded_at |-> NoTime,
              laps_loaded_at |-> NoTime, telemetry_loaded_at |-> NoTime,
              last_api_call |-> NoTime, api_calls_count |-> 0]

\* SessionLoadStatus.objects.get_or_create(session=session)
get_or_create_status(ls, s) == IF s \in DOMAIN ls THEN ls[s] ELSE NewStatus

\* status.save()
SaveStatus(ls, s, st) == [x \in DOMAIN ls \cup {s} |-> IF x = s THEN st ELSE ls[x]]

\* variant: the row is written although Session.objects.get found nothing
record_api_call_orphan(ls, s) ==
    SaveStatus(ls, s,
            [get_or_create_status(ls, s) EXCEPT !.last_api_call = now,
                                                !.api_calls_count = @ + 1])

\* record_api_call(session_id): upsert, last_api_call = timezone.now(),
\* api_calls_count += 1; Session.DoesNotExist is logged and dropped
record_api_call(ls, s) ==
    IF s \notin sessions THEN ls
    ELSE SaveStatus(ls, s,
            [get_or_create_status(ls, s) EXCEPT !.last_api_call = now,
                                                !.api_calls_count = @ + 1])

\* variant: the flag is set and the timestamps are left alone
mark_loaded_flag_only(st, data_type, timestamp) ==
    CASE data_type = "circuit"   -> [st EXCEPT !.has_circuit = TRUE]
      [] data_type = "weather"   -> [st EXCEPT !.has_weather = TRUE]
      [] data_type = "laps"      -> [st EXCEPT !.has_lap_times = TRUE]
      [] data_type = "telemetry" -> [st EXCEPT !.has_telemetry = TRUE]
      [] OTHER -> st

\* SessionLoadStatus.mark_loaded(data_type, timestamp)
mark_loaded(st, data_type, timestamp) ==
    CASE data_type = "circuit" ->
            [st EXCEPT !.has_circuit = TRUE, !.circuit_loaded_at = timestamp]
      [] data_type = "weather" ->
            [st EXCEPT !.has_weather = TRUE, !.weather_loaded_at = timestamp]
      [] data_type = "laps" ->
            [st EXCEPT !.has_lap_times = TRUE, !.laps_loaded_at = timestamp]
      [] data_type = "telemetry" ->
            [st EXCEPT !.has_telemetry = TRUE, !.telemetry_loaded_at = timestamp]
      [] OTHER -> st

\* mark_data_loaded(session_id, data_type): upsert and
\* status.mark_loaded(data_type, timezone.now()); Session.DoesNotExist is
\* logged and dropped
mark_data_loaded(ls, s, data_type) ==
    IF s \notin sessions THEN ls
    ELSE SaveStatus(ls, s, mark_loaded(get_or_create_status(ls, s), data_type, now))

\* the SessionWeather, SessionLoadStatus and Lap tables before any import
NoTables == [weather |-> << >>, status |-> << >>, laps |-> << >>]

\* what the actions of the master flow leave as it is
still == <<sessions, call, found, tables, lap_i, standalone>>

fixed == <<still, lost>>

NoCall == [full_name |-> << >>, driver_number |-> << >>, abbreviation |-> << >>,
           create_if_missing |-> FALSE]

NoFound == [driver |-> 0, method |-> None]

\* the inputs of the load_fastf1_session call made by process_session_gap;
\* cache_policy=INPUTS keys the memo by all of them
LoadInputs(g) ==
    [year |-> g.year, round_num |-> g.round_number,
     session_type |-> g.session_type, session_id |-> g.session_id,
     event_name |-> g.event_name]

\* what the loader passes to fastf1.get_session
\* (event_identifier = event_name if event_name else round_num)
ProviderRequest(inputs) ==
    [year |-> inputs.year,
     by_name |-> inputs.event_name # None,
     event_name |-> inputs.event_name,
     round_num |-> IF inputs.event_name # None THEN NoRound ELSE inputs.round_num,
     identifier |-> get_fastf1_session_identifier(inputs.session_type)]

\* the result dict process_session_gap starts from
NewResult == [extracted |-> << >>, failed |-> << >>, status |-> "success"]

\* the summary dict import_fastf1_flow starts from
NewSummary ==
    [gaps_detected |-> 0, sessions_processed |-> 0,
     sessions_succeeded |-> 0, sessions_failed |-> 0,
     data_extracted |-> [weather |-> 0, circuit |-> 0, telemetry |-> 0],
     status |-> "running"]

NoRun == [year |-> 0, round_number |-> NoRound, force |-> FALSE]

NoExc == [type |-> "none", msg |-> << >>]

\* the sessions in the store when the pipeline runs
ImportedSessions == {1, 2}

\* --round values the pipeline is run with
RunRounds == {NoRound, 1}

Init ==
    /\ sessions = ImportedSessions
    /\ drivers = Roster
    /\ call = NoCall
    /\ found = NoFound
    /\ weather = {}
    /\ load_status = << >>
    /\ cache = {}
    /\ pc = "idle"
    /\ run = NoRun
    /\ plan = << >>
    /\ idx = 0
    /\ attempt = 0
    /\ result = NewResult
    /\ summary = NewSummary
    /\ runs = 0
    /\ fetches = 0
    /\ lastExc = NoExc
    /\ lastRaised = None
    /\ notes = << >>
    /\ tables = NoTables
    /\ lap_i = 0
    /\ remaining = 0
    /\ slept = 0
    /\ now = 0
    /\ lost = {}

gap == plan[idx]

\* ------------------------------------------------------------------------
\* process_session_gap's return and the PHASE 2 loop body of import_fastf1_flow
\* ------------------------------------------------------------------------
\* variant: the status is left as it is
Returned_unchanged(r) == r

\* "if result['failed']: result['status'] = 'partial'" (inside the try: a load
\* failure leaves the try before this line and keeps status 'failed')
Returned(r) ==
    IF r.status # "failed" /\ r.failed # << >>
    THEN [r EXCEPT !.status = "partial"] ELSE r

CountOf(seq, c) == Cardinality({i \in 1..Len(seq) : seq[i] = c})

\* "for data_type in result['extracted']: if data_type in data_extracted: += 1"
CountExtracted(de, extracted) ==
    [c \in DOMAIN de |-> de[c] + CountOf(extracted, c)]

\* variant: a partial session is counted as processed and in no class
Aggregate_partial_unclassed(s, r) ==
    LET s1 == [s EXCEPT !.sessions_processed = @ + 1]
    IN  CASE r.status = "success" ->
               [s1 EXCEPT !.sessions_succeeded = @ + 1,
                          !.data_extracted = CountExtracted(@, r.extracted)]
          [] r.status = "partial" -> s1
          [] OTHER ->
               [s1 EXCEPT !.sessions_failed = @ + 1]

\* the loop body's bookkeeping for one returned result
Aggregate(s, r) ==
    LET s1 == [s EXCEPT !.sessions_processed = @ + 1]
    IN  CASE r.status = "success" ->
               [s1 EXCEPT !.sessions_succeeded = @ + 1,
                          !.data_extracted = CountExtracted(@, r.extracted)]
          [] r.status = "partial" ->
               [s1 EXCEPT !.sessions_succeeded = @ + 1]
          [] OTHER ->
               [s1 EXCEPT !.sessions_failed = @ + 1]

\* the notifications a helper has handed to Slack, in order
Emit(kind) == Append(notes, kind)

\* an exception inside the helper's try block is printed and dropped: the
\* only trace of a failed delivery
Deliver(kind, delivered) == IF delivered THEN lost \ {kind} ELSE lost \cup {kind}

\* ------------------------------------------------------------------------
\* import_fastf1_flow: PHASE 1
\* ------------------------------------------------------------------------
StartRun(year, round_number, force) ==
    /\ pc = "idle"
    /\ runs < MaxRuns
    /\ LET p == get_sessions_to_process(weather, year, round_number, force)
       IN  /\ plan' = p
           /\ summary' = [NewSummary EXCEPT !.gaps_detected = Len(p)]
    /\ run' = [year |-> year, round_number |-> round_number, force |-> force]
    /\ runs' = runs + 1
    /\ idx' = 0
    /\ pc' = "next"
    /\ notes' = << >>
    /\ lost' = {}
    /\ UNCHANGED <<still, drivers, weather, load_status, cache, attempt, result, fetches,
                   lastExc, lastRaised>>

\* the for loop takes the next planned session: process_session_gap starts
NextSession ==
    /\ pc = "next"
    /\ idx < Len(plan)
    /\ idx' = idx + 1
    /\ attempt' = 0
    /\ fetches' = 0
    /\ result' = NewResult
    /\ lastExc' = NoExc
    /\ lastRaised' = None
    /\ pc' = "load"
    /\ UNCHANGED <<fixed, drivers, weather, load_status, cache, run, plan, summary, runs, notes>>

\* ------------------------------------------------------------------------
\* process_session_gap, STEP 1: load_fastf1_session under the task runner
\* ------------------------------------------------------------------------
\* the memo holds a result for these inputs: no task body runs
LoadCached ==
    /\ pc = "load"
    /\ attempt = 0
    /\ LoadInputs(gap) \in cache
    /\ pc' = "drivers"
    /\ UNCHANGED <<fixed, drivers, weather, load_status, cache, run, plan, idx, attempt, result,
                   summary, runs, fetches, lastExc, lastRaised, notes>>

\* get_session + load succeed; record_api_call; the result is memoised
LoadFetchOk ==
    /\ pc = "load"
    /\ LoadInputs(gap) \notin cache
    /\ fetches' = fetches + 1
    /\ load_status' = record_api_call(load_status, gap.session_id)
    /\ cache' = cache \cup {LoadInputs(gap)}
    /\ lastExc' = NoExc
    /\ lastRaised' = None
    /\ attempt' = 0
    /\ pc' = "drivers"
    /\ UNCHANGED <<fixed, drivers, weather, run, plan, idx, result, summary, runs, notes>>

\* get_session or load raises exc; the task runner retries the body or gives
\* up; process_session_gap's outer except then sets status 'failed' and
\* returns, and the flow counts the result
LoadFetchFail(exc) ==
    /\ pc = "load"
    /\ LoadInputs(gap) \notin cache
    /\ fetches' = fetches + 1
    /\ lastExc' = exc
    /\ lastRaised' = LoaderRaises(exc)
    /\ IF TaskRetries(LoaderRaises(exc), attempt)
       THEN /\ attempt' = attempt + 1
            /\ UNCHANGED <<fixed, drivers, pc, result, summary>>
       ELSE /\ result' = [result EXCEPT !.status = "failed"]
            /\ summary' = Aggregate(summary, result')
            /\ pc' = "next"
            /\ attempt' = 0
    /\ UNCHANGED <<fixed, drivers, weather, load_status, cache, run, plan, idx, runs, notes>>

\* the memo entry outlives cache_expiration (1 hour). A run loads each
\* session at most once, so an expiry during a run has the effect of the same
\* expiry before or after it; it is taken between runs.
CacheExpire(k) ==
    /\ pc = "idle"
    /\ k \in cache
    /\ cache' = cache \ {k}
    /\ UNCHANGED <<fixed, drivers, weather, load_status, pc, run, plan, idx, attempt, result,
                   summary, runs, fetches, lastExc, lastRaised, notes>>

\* ------------------------------------------------------------------------
\* process_session_gap, STEPS 2-5: extraction from the loaded payload
\* ------------------------------------------------------------------------
Append2(r, field, c) == [r EXCEPT ![field] = Append(@, c)]

\* STEP 2: extract_driver_info returns None (no results, or it raised inside)
DriversNone ==
    /\ pc = "drivers"
    /\ pc' = "weather"
    /\ UNCHANGED <<fixed, drivers, weather, load_status, cache, run, plan, idx, attempt, result,
                   summary, runs, fetches, lastExc, lastRaised, notes>>

\* variant: a failed driver save escapes the step and ends the session as
\* 'failed' before any other category
DriversSave_aborting(db) ==
    /\ pc = "drivers"
    /\ IF db = "ok"
       THEN \E ds \in save_driver_info_to_db(drivers, PayloadDrivers) : drivers' = ds
       ELSE drivers' = drivers
    /\ result' = IF db = "ok" THEN Append2(result, "extracted", "drivers")
                 ELSE [result EXCEPT !.status = "failed"]
    /\ summary' = IF db = "ok" THEN summary ELSE Aggregate(summary, result')
    /\ pc' = IF db = "ok" THEN "weather" ELSE "next"
    /\ UNCHANGED <<fixed, weather, load_status, cache, run, plan, idx, attempt,
                   runs, fetches, lastExc, lastRaised, notes>>

\* STEP 2: driver rows extracted; save_driver_info_to_db returns success, or
\* the session lookup raises a database error that reaches the step's except
DriversSave(db) ==
    /\ pc = "drivers"
    /\ IF db = "ok"
       THEN \E ds \in save_driver_info_to_db(drivers, PayloadDrivers) : drivers' = ds
       ELSE drivers' = drivers
    /\ result' = IF db = "ok" THEN Append2(result, "extracted", "drivers")
                 ELSE Append2(result, "failed", "drivers")
    /\ pc' = "weather"
    /\ UNCHANGED <<fixed, weather, load_status, cache, run, plan, idx, attempt,
                   summary, runs, fetches, lastExc, lastRaised, notes>>

\* variant: the weather step loads the session again before extracting
WeatherNone_reload ==
    /\ pc = "weather"
    /\ fetches' = fetches + 1
    /\ result' = Append2(result, "failed", "weather")
    /\ pc' = "circuit"
    /\ UNCHANGED <<fixed, drivers, weather, load_status, cache, run, plan, idx, attempt,
                   summary, runs, lastExc, lastRaised, notes>>

\* STEP 3: extract_weather_data returns None: the payload has no weather
\* samples, or reading them raised (caught inside the extractor)
WeatherNone ==
    /\ pc = "weather"
    /\ result' = Append2(result, "failed", "weather")
    /\ pc' = "circuit"
    /\ UNCHANGED <<fixed, drivers, weather, load_status, cache, run, plan, idx, attempt,
                   summary, runs, fetches, lastExc, lastRaised, notes>>

\* variant: the weather flag is set before the row write is known to succeed
WeatherSave_mark_first(db) ==
    /\ pc = "weather"
    /\ weather' = IF db = "ok" THEN weather \cup {gap.session_id} ELSE weather
    /\ load_status' = mark_data_loaded(load_status, gap.session_id, "weather")
    /\ result' = IF db = "ok" THEN Append2(result, "extracted", "weather")
                 ELSE Append2(result, "failed", "weather")
    /\ pc' = "circuit"
    /\ UNCHANGED <<fixed, drivers, cache, run, plan, idx, attempt, summary, runs, fetches,
                   lastExc, lastRaised, notes>>

\* STEP 3: weather extracted; save_weather_to_db: update_or_create the row,
\* then mark_data_loaded('weather'); an exception gives status 'failed'
\* (db = "db_error": the row write fails)
WeatherSave(db) ==
    /\ pc = "weather"
    /\ weather' = IF db = "ok" THEN weather \cup {gap.session_id} ELSE weather
    /\ load_status' = IF db = "ok"
                      THEN mark_data_loaded(load_status, gap.session_id, "weather")
                      ELSE load_status
    /\ result' = IF db = "ok" THEN Append2(result, "extracted", "weather")
                 ELSE Append2(result, "failed", "weather")
    /\ pc' = "circuit"
    /\ UNCHANGED <<fixed, drivers, cache, run, plan, idx, attempt, summary, runs, fetches,
                   lastExc, lastRaised, notes>>

\* STEP 4: extract_circuit_data returns None (no circuit info, or it raised
\* inside the extractor): logged, not a failure
CircuitNone ==
    /\ pc = "circuit"
    /\ pc' = "telemetry"
    /\ UNCHANGED <<fixed, drivers, weather, load_status, cache, run, plan, idx, attempt, result,
                   summary, runs, fetches, lastExc, lastRaised, notes>>

\* variant: a failed circuit save escapes the step and ends the session as
\* 'failed' before the telemetry step
CircuitSave_aborting(db) ==
    /\ pc = "circuit"
    /\ load_status' = IF db = "ok"
                      THEN mark_data_loaded(load_status, gap.session_id, "circuit")
                      ELSE load_status
    /\ result' = IF db = "ok" THEN Append2(result, "extracted", "circuit")
                 ELSE [result EXCEPT !.status = "failed"]
    /\ summary' = IF db = "ok" THEN summary ELSE Aggregate(summary, result')
    /\ pc' = IF db = "ok" THEN "telemetry" ELSE "next"
    /\ UNCHANGED <<fixed, drivers, weather, cache, run, plan, idx, attempt, runs,
                   fetches, lastExc, lastRaised, notes>>

\* STEP 4: circuit extracted; save_circuit_to_db returns success after
\* mark_data_loaded('circuit'), or 'failed' (race without circuit, db error)
CircuitSave(db) ==
    /\ pc = "circuit"
    /\ load_status' = IF db = "ok"
                      THEN mark_data_loaded(load_status, gap.session_id, "circuit")
                      ELSE load_status
    /\ result' = IF db = "ok" THEN Append2(result, "extracted", "circuit")
                 ELSE Append2(result, "failed", "circuit")
    /\ pc' = "telemetry"
    /\ UNCHANGED <<fixed, drivers, weather, cache, run, plan, idx, attempt, summary, runs,
                   fetches, lastExc, lastRaised, notes>>

\* STEP 5: extract_lap_data returns None (no laps, or it raised inside);
\* process_session_gap returns and the flow counts the result
TelemetryNone ==
    /\ pc = "telemetry"
    /\ result' = Returned(Append2(result, "failed", "telemetry"))
    /\ summary' = Aggregate(summary, result')
    /\ pc' = "next"
    /\ UNCHANGED <<fixed, drivers, weather, load_status, cache, run, plan, idx, attempt,
                   runs, fetches, lastExc, lastRaised, notes>>

\* STEP 5: laps extracted; save_telemetry_to_db returns success after
\* mark_data_loaded('telemetry'), or 'failed'; process_session_gap returns
\* and the flow counts the result
TelemetrySave(db) ==
    /\ pc = "telemetry"
    /\ load_status' = IF db = "ok"
                      THEN mark_data_loaded(load_status, gap.session_id, "telemetry")
                      ELSE load_status
    /\ result' = Returned(IF db = "ok"
                           THEN Append2(result, "extracted", "telemetry")
                           ELSE Append2(result, "failed", "telemetry"))
    /\ summary' = Aggregate(summary, result')
    /\ pc' = "next"
    /\ UNCHANGED <<fixed, drivers, weather, cache, run, plan, idx, attempt, runs,
                   fetches, lastExc, lastRaised, notes>>

\* the for loop is exhausted. PHASE 5: summary['status'] = 'complete'; the
\* flow returns the summary and its locals are gone
\* variant: a failed delivery raises inside the flow's try block
CompleteRun_raising(notify) ==
    /\ pc = "next"
    /\ idx = Len(plan)
    /\ summary' = [summary EXCEPT !.status = IF notify = "lost" THEN "failed" ELSE "complete"]
    /\ notes' = IF notify = "off" THEN notes ELSE Emit("complete")
    /\ lost' = IF notify = "off" THEN lost ELSE Deliver("complete", notify = "sent")
    /\ pc' = "idle"
    /\ idx' = 0
    /\ fetches' = 0
    /\ result' = NewResult
    /\ lastExc' = NoExc
    /\ lastRaised' = None
    /\ UNCHANGED <<still, drivers, weather, load_status, cache, run, plan, attempt, runs>>

\* PHASE 5: status 'complete'; "if notify: send_completion_notification":
\* notify is "off" for notify=False, otherwise the task hands the message to
\* Slack and logs a failure of the delivery ("lost") without raising
CompleteRun(notify) ==
    /\ pc = "next"
    /\ idx = Len(plan)
    /\ summary' = [summary EXCEPT !.status = "complete"]
    /\ notes' = IF notify = "off" THEN notes ELSE Emit("complete")
    /\ lost' = IF notify = "off" THEN lost ELSE Deliver("complete", notify = "sent")
    /\ pc' = "idle"
    /\ idx' = 0
    /\ fetches' = 0
    /\ result' = NewResult
    /\ lastExc' = NoExc
    /\ lastRaised' = None
    /\ UNCHANGED <<still, drivers, weather, load_status, cache, run, plan, attempt, runs>>

Next ==
    \/ \E y \in Years, r \in RunRounds, f \in BOOLEAN : StartRun(y, r, f)
    \/ NextSession
    \/ LoadCached
    \/ LoadFetchOk
    \/ \E exc \in ProviderErrors : LoadFetchFail(exc)
    \/ \E k \in cache : CacheExpire(k)
    \/ DriversNone
    \/ \E db \in {"ok", "db_error"} : DriversSave(db)
    \/ WeatherNone
    \/ \E db \in {"ok", "db_error"} : WeatherSave(db)
    \/ CircuitNone
    \/ \E db \in {"ok", "db_error"} : CircuitSave(db)
    \/ TelemetryNone
    \/ \E db \in {"ok", "db_error"} : TelemetrySave(db)
    \/ \E notify \in {"off", "sent", "lost"} : CompleteRun(notify)

Spec == Init /\ [][Next]_vars

\* ------------------------------------------------------------------------
\* The planner on every catalogue and weather table the imports can leave
\* ------------------------------------------------------------------------
PlannerInit ==
    /\ sessions \in SUBSET SessionIds
    /\ weather \in SUBSET sessions
    /\ drivers = Roster
    /\ call = NoCall
    /\ found = NoFound
    /\ load_status = << >>
    /\ cache = {}
    /\ pc = "idle"
    /\ run = NoRun
    /\ plan = << >>
    /\ idx = 0
    /\ attempt = 0
    /\ result = NewResult
    /\ summary = NewSummary
    /\ runs = 0
    /\ fetches = 0
    /\ lastExc = NoExc
    /\ lastRaised = None
    /\ notes = << >>
    /\ tables = NoTables
    /\ lap_i = 0
    /\ remaining = 0
    /\ slept = 0
    /\ now = 0
    /\ lost = {}

PlannerNext ==
    \E y \in Years, r \in RoundFilters, f \in BOOLEAN : StartRun(y, r, f)

PlannerSpec == PlannerInit /\ [][PlannerNext]_vars

\* ------------------------------------------------------------------------
\* The resolver called with reports, with and without auto-create
\* ------------------------------------------------------------------------
\* variant: auto-create that does not look for a match first
Resolve_create_unmatched(full_name, driver_number, abbreviation, create_if_missing) ==
    /\ IF create_if_missing
       THEN /\ drivers' = Append(drivers, NewDriver(full_name, driver_number, abbreviation))
            /\ found' = [driver |-> Len(drivers) + 1, method |-> "created_new"]
       ELSE \E o \in find_driver_by_fastf1_data(drivers, full_name, driver_number,
                                                abbreviation, create_if_missing) :
               /\ drivers' = o.store
               /\ found' = [driver |-> o.driver, method |-> o.method]
    /\ call' = [full_name |-> full_name, driver_number |-> driver_number,
                abbreviation |-> abbreviation,
                create_if_missing |-> create_if_missing]
    /\ UNCHANGED <<sessions, weather, load_status, cache, pc, run, plan, idx,
                   attempt, result, summary, runs, fetches, lastExc,
                   lastRaised, notes, tables, lap_i, standalone, lost>>

Resolve(full_name, driver_number, abbreviation, create_if_missing) ==
    /\ \E o \in find_driver_by_fastf1_data(drivers, full_name, driver_number,
                                           abbreviation, create_if_missing) :
          /\ drivers' = o.store
          /\ found' = [driver |-> o.driver, method |-> o.method]
    /\ call' = [full_name |-> full_name, driver_number |-> driver_number,
                abbreviation |-> abbreviation,
                create_if_missing |-> create_if_missing]
    /\ UNCHANGED <<sessions, weather, load_status, cache, pc, run, plan, idx,
                   attempt, result, summary, runs, fetches, lastExc,
                   lastRaised, notes, tables, lap_i, standalone, lost>>

ResolverNext ==
    \E n \in ReportedNames, num \in ReportedNumbers, code \in ReportedCodes,
       create \in BOOLEAN : Resolve(n, num, code, create)

ResolverSpec == Init /\ [][ResolverNext]_vars

\* ------------------------------------------------------------------------
\* Properties
\* ------------------------------------------------------------------------
Extracting == pc \in {"drivers", "weather", "circuit", "telemetry"}

\* a StartRun step that repeats the parameters of the run before, unforced
RepeatsUnforced ==
    /\ pc = "idle"
    /\ runs >= 1
    /\ runs' = runs + 1
    /\ run' = run
    /\ ~run.force

\* C1 as stated: a second unforced run on the same season, right after a
\* first one, plans nothing.
C1_SecondPlanEmpty == [][RepeatsUnforced => plan' = << >>]_vars

\* C1: a second unforced run with the parameters of the first plans exactly
\* the sessions the first one planned and left without a weather row; a
\* session whose weather row the first run wrote is never planned again.
C1_SecondPlanIsOpenRest ==
    [][RepeatsUnforced => /\ GapIds(plan') = GapIds(plan) \ weather
                          /\ Len(plan') = Cardinality(GapIds(plan'))]_vars

\* a first unforced run has finished, closing one gap and leaving another open
C1_Witness ==
    /\ pc = "idle"
    /\ runs = 1
    /\ ~run.force
    /\ GapIds(plan) \cap weather # {}
    /\ GapIds(plan) \ weather # {}

C3_RateLimitPausedNotFailed ==
    lastRaised = "RateLimitExceededError" =>
        /\ CountOf(notes, "pause") >= 1
        /\ CountOf(notes, "resume") = CountOf(notes, "pause")
        /\ result.status # "failed"

has_flag(s, flag) == s \in DOMAIN load_status /\ load_status[s][flag]

WeatherFailedCircuitSaved ==
    /\ CountOf(result.failed, "weather") = 1
    /\ CountOf(result.extracted, "circuit") = 1

Matching(year, round_number) ==
    {s \in sessions : /\ SessionRow(s).year = year
                      /\ round_number # NoRound
                           => SessionRow(s).round_number = round_number}

\* C5 as stated: a forced plan holds every persisted session matching the
\* year/round filter exactly once.
C5_ForcePlansMatchingOnce ==
    (pc = "next" /\ idx = 0 /\ run.force) =>
        /\ GapIds(plan) = Matching(run.year, run.round_number)
        /\ Len(plan) = Cardinality(Matching(run.year, run.round_number))

\* a resolver call returns in this step
Resolved == call' # call \/ found' # found \/ drivers' # drivers

\* the drivers strategy k selects for the report c, k counting in the order
\* exact name, number, code, normalized name, unique surname
StrategyHits(ds, c, k) ==
    CASE k = 1 -> LET name == Lower(c.full_name)
                  IN  {d \in DOMAIN ds : Lower(ds[d].full_name) = name}
      [] k = 2 -> {d \in DOMAIN ds : c.driver_number # << >>
                                     /\ ds[d].driver_number = c.driver_number}
      [] k = 3 -> LET code == Lower(c.abbreviation)
                  IN  {d \in DOMAIN ds : c.abbreviation # << >>
                                         /\ Lower(ds[d].abbreviation) = code}
      [] k = 4 -> LET titled == Title(Strip(c.full_name))
                  IN  {d \in DOMAIN ds : Title(Strip(ds[d].full_name)) = titled}
      [] k = 5 -> LET tokens == Split(c.full_name)
                      surname == Lower(tokens[Len(tokens)])
                      same == IF tokens = << >> \/ ~HasSpace(c.full_name) THEN {}
                              ELSE {d \in DOMAIN ds : Lower(ds[d].last_name) = surname}
                  IN  IF Cardinality(same) = 1 THEN same ELSE {}

\* the first strategy that selects a driver, 0 when none does
FirstStrategy(ds, c) ==
    IF StrategyHits(ds, c, 1) # {} THEN 1
    ELSE IF StrategyHits(ds, c, 2) # {} THEN 2
    ELSE IF StrategyHits(ds, c, 3) # {} THEN 3
    ELSE IF StrategyHits(ds, c, 4) # {} THEN 4
    ELSE IF StrategyHits(ds, c, 5) # {} THEN 5
    ELSE 0

StrategyMethods ==
    <<"exact_name", "driver_number", "abbreviation", "normalized_name",
      "unique_last_name">>

C8_NonRetryableIsTerminal ==
    [][(pc = "load" /\ lastRaised = "NonRetryableError")
          => fetches' = fetches]_vars

\* steps a started run can still take
StepsLeft ==
    IF pc = "idle" THEN 0
    ELSE (Len(plan) - idx) * (FASTF1_TASK_RETRIES + 6) + 1
         + CASE pc = "load" -> 5 + FASTF1_TASK_RETRIES - attempt
             [] pc = "drivers" -> 4
             [] pc = "weather" -> 3
             [] pc = "circuit" -> 2
             [] pc = "telemetry" -> 1
             [] OTHER -> 0

KeywordsInClaim ==
    {non_retryable_keywords[1], non_retryable_keywords[3],
     non_retryable_keywords[4], non_retryable_keywords[5]}

\* the class the loader is to raise for exc when the message keywords are kws
ClassOf(exc, kws) ==
    IF exc.type = "RateLimitExceededError" THEN "RateLimitExceededError"
    ELSE IF \E k \in kws : Contains(Lower(exc.msg), k) THEN "NonRetryableError"
    ELSE "Exception"

\* C10 as stated: rate-limit signals stay rate-limited; other failures are
\* non-retryable exactly when the message holds one of "not found",
\* "no data available", "invalid round", "invalid event"; the rest is transient.
C10_FourKeywords ==
    lastExc # NoExc => lastRaised = ClassOf(lastExc, KeywordsInClaim)

\* C10: as above, with "does not exist" as a fifth keyword, each keyword
\* looked up as a substring of the lower-cased message.
C10_FiveKeywords ==
    lastExc # NoExc =>
        lastRaised = ClassOf(lastExc, KeywordsInClaim \cup {non_retryable_keywords[2]})

\* the rate-limit signal with a keyword in its message was raised as rate-limited
C10_Witness ==
    /\ lastExc.type = "RateLimitExceededError"
    /\ Contains(Lower(lastExc.msg), non_retryable_keywords[1])
    /\ lastRaised = "RateLimitExceededError"

\* ------------------------------------------------------------------------
\* Weather flow: process_session_weather (flows/import_weather.py)
\* ------------------------------------------------------------------------
\* the status process_session_weather returns: raised is what the load call
\* raised (None when it returned), has_weather_data whether
\* extract_weather_data returned samples, saved the status of save_weather_to_db
process_session_weather(raised, has_weather_data, saved) ==
    IF raised = "NonRetryableError" THEN "no_data"
    ELSE IF raised # None THEN "error"
    ELSE IF ~has_weather_data THEN "no_data"
    ELSE saved

CategoryStep == [weather |-> "weather", circuit |-> "circuit", telemetry |-> "telemetry"]
CategoryFlag == [weather |-> "has_weather", circuit |-> "has_circuit",
                 telemetry |-> "has_telemetry"]
Categories == DOMAIN CategoryFlag

C13_NothingSilentlyDropped ==
    (pc = "idle" /\ runs >= 1) =>
        \A s \in GapIds(plan), c \in Categories :
            \/ has_flag(s, CategoryFlag[c])
            \/ s \in GapIds(detect_session_data_gaps(weather, run.year))

\* ------------------------------------------------------------------------
\* Persistence row by row, and a flow run that is killed
\* (save_weather_to_db, save_circuit_to_db, save_telemetry_to_db,
\* mark_data_loaded)
\* ------------------------------------------------------------------------
\* the rows of a table that carry the key of row
Matches(rows, row, key) ==
    {i \in 1..Len(rows) : \A f \in key : rows[i][f] = row[f]}

\* Model.objects.update_or_create(<key fields>, defaults=...)
update_or_create(rows, row, key) ==
    IF Matches(rows, row, key) = {} THEN Append(rows, row)
    ELSE [i \in 1..Len(rows) |->
             IF i \in Matches(rows, row, key) THEN row ELSE rows[i]]

NewStatusRow(s) ==
    [session |-> s, has_weather |-> FALSE, has_circuit |-> FALSE,
     has_telemetry |-> FALSE]

\* mark_data_loaded on the SessionLoadStatus table:
\* get_or_create(session=session), mark_loaded(data_type), save()
MarkRow(rows, s, flag) ==
    LET hit == {i \in 1..Len(rows) : rows[i].session = s}
        got == IF hit = {} THEN Append(rows, NewStatusRow(s)) ELSE rows
        i == CHOOSE j \in 1..Len(got) : got[j].session = s
    IN  [got EXCEPT ![i][flag] = TRUE]

\* the sessions with a SessionWeather row
WeatherIds(t) == {t.weather[i].session : i \in 1..Len(t.weather)}

\* the laps of a session's payload: (driver, lap number)
PayloadLaps == << [driver |-> 1, lap_number |-> 1], [driver |-> 1, lap_number |-> 2] >>

\* import_fastf1_flow PHASE 1 on the tables
ResumeStart(force) ==
    /\ pc = "idle"
    /\ runs < MaxRuns
    /\ plan' = get_sessions_to_process(WeatherIds(tables), 2025, NoRound, force)
    /\ run' = [year |-> 2025, round_number |-> NoRound, force |-> force]
    /\ runs' = runs + 1
    /\ idx' = 0
    /\ pc' = "next"
    /\ UNCHANGED <<sessions, drivers, call, found, weather, load_status, cache,
                   attempt, result, summary, fetches, lastExc, lastRaised, notes,
                   tables, lap_i, standalone, lost>>

\* the next planned session is loaded and its extraction begins
ResumeNextSession ==
    /\ pc = "next"
    /\ idx < Len(plan)
    /\ idx' = idx + 1
    /\ lap_i' = 0
    /\ pc' = "weather"
    /\ UNCHANGED <<sessions, drivers, call, found, weather, load_status, cache,
                   run, plan, attempt, result, summary, runs, fetches, lastExc,
                   lastRaised, notes, tables, standalone, lost>>

\* what the steps on the tables leave as it is
beside == <<sessions, drivers, call, found, weather, load_status, cache, run,
            plan, idx, attempt, result, summary, runs, fetches, lastExc,
            lastRaised, notes, standalone, lost>>

\* save_weather_to_db: SessionWeather.objects.update_or_create(session=session)
ResumeWeatherRow ==
    /\ pc = "weather"
    /\ tables' = [tables EXCEPT !.weather =
          update_or_create(@, [session |-> gap.session_id], {"session"})]
    /\ pc' = "weather_mark"
    /\ UNCHANGED <<beside, lap_i>>

\* save_weather_to_db: mark_data_loaded(session_id, 'weather')
ResumeWeatherMark ==
    /\ pc = "weather_mark"
    /\ tables' = [tables EXCEPT !.status = MarkRow(@, gap.session_id, "has_weather")]
    /\ pc' = "circuit"
    /\ UNCHANGED <<beside, lap_i>>

\* save_weather_to_db: mark_data_loaded raises after the row was written (the
\* status write fails); the except returns 'failed' and the row stays
ResumeWeatherMarkFails ==
    /\ pc = "weather_mark"
    /\ pc' = "circuit"
    /\ UNCHANGED <<beside, tables, lap_i>>

\* no weather data, or the save failed before writing
ResumeWeatherNone ==
    /\ pc = "weather"
    /\ pc' = "circuit"
    /\ UNCHANGED <<beside, tables, lap_i>>

\* save_circuit_to_db: mark_data_loaded(session_id, 'circuit')
ResumeCircuitSave ==
    /\ pc = "circuit"
    /\ tables' = [tables EXCEPT !.status = MarkRow(@, gap.session_id, "has_circuit")]
    /\ pc' = "telemetry"
    /\ UNCHANGED <<beside, lap_i>>

\* no circuit data, or the save failed before marking
ResumeCircuitNone ==
    /\ pc = "circuit"
    /\ pc' = "telemetry"
    /\ UNCHANGED <<beside, tables, lap_i>>

\* save_telemetry_to_db STEP 1, one lap:
\* Lap.objects.update_or_create(session, driver, lap_number)
ResumeLap ==
    /\ pc = "telemetry"
    /\ lap_i < Len(PayloadLaps)
    /\ lap_i' = lap_i + 1
    /\ tables' = [tables EXCEPT !.laps =
          update_or_create(@, [session |-> gap.session_id,
                               driver |-> PayloadLaps[lap_i'].driver,
                               lap_number |-> PayloadLaps[lap_i'].lap_number],
                           {"session", "driver", "lap_number"})]
    /\ UNCHANGED <<beside, pc>>

\* save_telemetry_to_db: mark_data_loaded(session_id, 'telemetry')
ResumeTelemetryMark ==
    /\ pc = "telemetry"
    /\ lap_i = Len(PayloadLaps)
    /\ tables' = [tables EXCEPT !.status = MarkRow(@, gap.session_id, "has_telemetry")]
    /\ pc' = "next"
    /\ UNCHANGED <<beside, lap_i>>

\* no lap data
ResumeTelemetryNone ==
    /\ pc = "telemetry"
    /\ lap_i = 0
    /\ pc' = "next"
    /\ UNCHANGED <<beside, tables, lap_i>>

\* the plan is exhausted: the flow returns
ResumeComplete ==
    /\ pc = "next"
    /\ idx = Len(plan)
    /\ pc' = "idle"
    /\ UNCHANGED <<beside, tables, lap_i>>

\* the flow's process is terminated: its locals are gone, the tables stay
Kill ==
    /\ pc # "idle"
    /\ pc' = "idle"
    /\ idx' = 0
    /\ lap_i' = 0
    /\ UNCHANGED <<sessions, drivers, call, found, weather, load_status, cache,
                   run, plan, attempt, result, summary, runs, fetches, lastExc,
                   lastRaised, notes, tables, standalone, lost>>

ResumeNext ==
    \/ \E f \in BOOLEAN : ResumeStart(f)
    \/ ResumeNextSession
    \/ ResumeWeatherRow
    \/ ResumeWeatherMark
    \/ ResumeWeatherMarkFails
    \/ ResumeWeatherNone
    \/ ResumeCircuitSave
    \/ ResumeCircuitNone
    \/ ResumeLap
    \/ ResumeTelemetryMark
    \/ ResumeTelemetryNone
    \/ ResumeComplete
    \/ Kill

ResumeSpec == Init /\ [][ResumeNext]_vars

\* no two rows of a table carry the same key
UniqueBy(rows, key) ==
    \A i, j \in 1..Len(rows) : (\A f \in key : rows[i][f] = rows[j][f]) => i = j

\* at most one weather row and one LoadStatus per session, at most one lap
\* per (session, driver, lap number)
UpsertedOnce ==
    /\ UniqueBy(tables.weather, {"session"})
    /\ UniqueBy(tables.status, {"session"})
    /\ UniqueBy(tables.laps, {"session", "driver", "lap_number"})

\* the sessions whose LoadStatus row has the flag set
Flagged(t, flag) == {t.status[i].session : i \in {j \in 1..Len(t.status) : t.status[j][flag]}}

NoDuplicateNames(ds) ==
    \A i, j \in 1..Len(ds) : Lower(ds[i].full_name) = Lower(ds[j].full_name) => i = j

\* the latest call repeats the report of the call before it
SameReport(c, d) ==
    /\ c.full_name = d.full_name
    /\ c.driver_number = d.driver_number
    /\ c.abbreviation = d.abbreviation

update_driver_identifiers_unset(driver, driver_number, abbreviation, fastf1_name) ==
    LET n == driver_number # << >> /\ driver.driver_number = << >>
        a == abbreviation # << >> /\ driver.abbreviation = << >>
    IN  [driver |-> [driver EXCEPT
                        !.driver_number = IF n THEN driver_number ELSE @,
                        !.abbreviation = IF a THEN abbreviation ELSE @],
         updated |-> n \/ a]

\* update_driver_identifiers: the driver as saved and the value returned
\* (the name variation is logged only)
update_driver_identifiers(driver, driver_number, abbreviation, fastf1_name) ==
    LET n == /\ driver_number # << >>
             /\ (driver.driver_number = << >> \/ driver.driver_number # driver_number)
        a == /\ abbreviation # << >>
             /\ (driver.abbreviation = << >> \/ driver.abbreviation # abbreviation)
    IN  [driver |-> [driver EXCEPT
                        !.driver_number = IF n THEN driver_number ELSE @,
                        !.abbreviation = IF a THEN abbreviation ELSE @],
         updated |-> n \/ a]

\* names reported along with the identifiers
VariationNames == {NameMaxVerstappen, NameInitialSmith}

\* update_driver_identifiers called on the stored driver d
UpdateIdentifiers(d, driver_number, abbreviation, fastf1_name) ==
    /\ LET r == update_driver_identifiers(drivers[d], driver_number,
                                          abbreviation, fastf1_name)
       IN  /\ drivers' = [drivers EXCEPT ![d] = r.driver]
           /\ found' = [driver |-> d, updated |-> r.updated]
    /\ call' = [full_name |-> fastf1_name, driver_number |-> driver_number,
                abbreviation |-> abbreviation, create_if_missing |-> FALSE]
    /\ UNCHANGED <<sessions, weather, load_status, cache, pc, run, plan, idx,
                   attempt, result, summary, runs, fetches, lastExc,
                   lastRaised, notes, tables, lap_i, standalone, lost>>

IdentifierNext ==
    \E d \in 1..Len(Roster), num \in ReportedNumbers, code \in ReportedCodes,
       n \in VariationNames : UpdateIdentifiers(d, num, code, n)

IdentifierSpec == Init /\ [][IdentifierNext]_vars

\* the value a field holds after a call that supplies v for it
Backfilled(stored, v) == IF v # << >> /\ stored # v THEN v ELSE stored

ExpectedRounds == {NoRound, 1, 2, 3}

\* variant: detection creates the SessionLoadStatus row of each session it
\* reports
GenerateGapReport_tracking(year, expected_rounds) ==
    /\ result' = generate_gap_report(weather, year, expected_rounds)
    /\ load_status' = [s \in DOMAIN load_status \cup GapIds(result'.session_gaps) |->
                          get_or_create_status(load_status, s)]
    /\ UNCHANGED <<sessions, drivers, call, found, weather, cache, pc, run,
                   plan, idx, attempt, summary, runs, fetches, lastExc,
                   lastRaised, notes, tables, lap_i, standalone, lost>>

\* generate_gap_report(year, expected_rounds): the three detectors query the
\* Season, Race, Session and SessionWeather tables; result holds the report
GenerateGapReport(year, expected_rounds) ==
    /\ result' = generate_gap_report(weather, year, expected_rounds)
    /\ UNCHANGED <<sessions, drivers, call, found, weather, load_status, cache,
                   pc, run, plan, idx, attempt, summary, runs, fetches, lastExc,
                   lastRaised, notes, tables, lap_i, standalone, lost>>

DetectorNext ==
    \E y \in Years, e \in ExpectedRounds : GenerateGapReport(y, e)

DetectorSpec == PlannerInit /\ [][DetectorNext]_vars

\* the persisted state
persisted == <<sessions, drivers, weather, load_status, cache, tables>>

\* C17: a gap report, for a year with or without Season row, leaves the
\* persisted state as it was.
C17_DetectionReadOnly ==
    [][result' # result => persisted' = persisted]_vars

\* a report for a year without Season row, made on a store that has sessions
C17_Witness ==
    /\ sessions # {}
    /\ "season_year" \in DOMAIN result
    /\ result.season_year \notin SeasonYears
    /\ result.session_gaps = << >>
    /\ result.missing_sessions = << >>

\* C18: the session gaps of a report for a year are, each once, the persisted
\* sessions of that season without weather row; a gap carries its session's
\* id, round number, session type and session number, and the race's name as
\* event name for a testing event, no event name otherwise.
C18_OneGapPerSessionWithoutWeather ==
    "season_year" \in DOMAIN result =>
        LET gaps == result.session_gaps
            open == {s \in sessions : /\ SessionRow(s).year = result.season_year
                                      /\ s \notin weather}
        IN  /\ GapIds(gaps) = open
            /\ Len(gaps) = Cardinality(open)
            /\ \A i \in 1..Len(gaps) :
                 LET g == gaps[i]
                     row == SessionRow(g.session_id)
                 IN  /\ g.year = result.season_year
                     /\ g.round_number = row.round_number
                     /\ g.session_type = row.session_type
                     /\ g.session_number = row.session_number
                     /\ g.missing_weather
                     /\ (g.event_name # None) = (row.event_format = "testing")
                     /\ g.event_name # None => g.event_name = row.race_name

\* a report with a gap for a testing session and one for a race session,
\* and none for the session that has a weather row
C18_Witness ==
    /\ "season_year" \in DOMAIN result
    /\ weather # {}
    /\ Len(result.session_gaps) = 2
    /\ result.session_gaps[1].event_name # None
    /\ result.session_gaps[2].event_name = None

\* a plan has just been returned
Planned == pc = "next" /\ idx = 0

\* C19 as stated: when the round filter names a persisted race of the
\* season, every planned session is of that round, forced or not.
C19_RoundFilterRestricts ==
    (/\ Planned
     /\ run.round_number # NoRound
     /\ \E s \in sessions : /\ SessionRow(s).year = run.year
                            /\ SessionRow(s).round_number = run.round_number)
    => \A i \in 1..Len(plan) : plan[i].round_number = run.round_number

\* the entries of a sequence of gaps selected by keep are ascending by
\* (round number, session number)
Ascending(gaps, keep(_)) ==
    \A i, j \in 1..Len(gaps) :
        (i < j /\ keep(gaps[i]) /\ keep(gaps[j]))
            => SessionBefore(gaps[i].session_id, gaps[j].session_id)

\* C20 as stated: every plan is ascending by (round number, session number).
C20_PlanAscending ==
    Planned => Ascending(plan, LAMBDA g : TRUE)

\* C20: an unforced plan is ascending by (round number, session number); a
\* forced plan holds the sessions without weather row first and the other
\* sessions after them, each of the two groups ascending; so the sequence is
\* fixed by the persisted state, the filter and the force flag.
C20_GapsThenAddedAscending ==
    Planned =>
        /\ Ascending(plan, LAMBDA g : g.session_id \notin weather)
        /\ Ascending(plan, LAMBDA g : g.session_id \in weather)
        /\ \A i, j \in 1..Len(plan) :
              (plan[i].session_id \notin weather /\ plan[j].session_id \in weather)
                  => i < j
        /\ ~run.force => (\A i \in 1..Len(plan) : plan[i].session_id \notin weather)

\* a forced plan whose detected gap of round 1 comes before the added
\* session of round 0
C20_Witness ==
    /\ Planned
    /\ run.force
    /\ Len(plan) >= 2
    /\ plan[1].session_id \notin weather
    /\ plan[2].session_id \in weather
    /\ plan[1].round_number > plan[2].round_number

\* ------------------------------------------------------------------------
\* wait_for_rate_limit: the one-hour pause, called on its own
\* ------------------------------------------------------------------------
wait_seconds == 3600

chunk_size == 300

Sleeping == pc \in {"sleep_tqdm", "sleep_chunks"}

\* variant: the pause is announced and the caller is not blocked
WaitPause_background(tqdm, delivered) ==
    /\ pc = "idle"
    /\ runs = 0
    /\ notes' = <<"pause">>
    /\ lost' = IF delivered THEN {} ELSE {"pause"}
    /\ UNCHANGED <<sessions, drivers, call, found, weather, load_status, cache, pc, run, plan,
                   idx, attempt, result, summary, runs, fetches, lastExc, lastRaised,
                   tables, lap_i, standalone>>

\* lines 36-51: the pause notification, then the progress bar when tqdm can
\* be imported and the chunked loop when it cannot
WaitPause(tqdm, delivered) ==
    /\ pc = "idle"
    /\ runs = 0
    /\ notes' = <<"pause">>
    /\ lost' = IF delivered THEN {} ELSE {"pause"}
    /\ remaining' = wait_seconds
    /\ slept' = 0
    /\ pc' = IF tqdm THEN "sleep_tqdm" ELSE "sleep_chunks"
    /\ UNCHANGED <<sessions, drivers, call, found, weather, load_status, cache, run, plan,
                   idx, attempt, result, summary, runs, fetches, lastExc, lastRaised,
                   tables, lap_i, now>>

\* for _ in tqdm(range(wait_seconds)): time.sleep(1)
SleepTqdm ==
    /\ pc = "sleep_tqdm"
    /\ remaining > 0
    /\ slept' = slept + 1
    /\ remaining' = remaining - 1
    /\ UNCHANGED <<sessions, drivers, call, found, weather, load_status, cache, pc, run,
                   plan, idx, attempt, result, summary, runs, fetches, lastExc,
                   lastRaised, notes, tables, lap_i, now, lost>>

sleep_time(left) == Min({chunk_size, left})

\* while remaining > 0: one chunk of the fallback loop
SleepChunk ==
    /\ pc = "sleep_chunks"
    /\ remaining > 0
    /\ slept' = slept + sleep_time(remaining)
    /\ remaining' = remaining - sleep_time(remaining)
    /\ UNCHANGED <<sessions, drivers, call, found, weather, load_status, cache, pc, run,
                   plan, idx, attempt, result, summary, runs, fetches, lastExc,
                   lastRaised, notes, tables, lap_i, now, lost>>

WaitResume_early(delivered) ==
    /\ Sleeping
    /\ notes' = Emit("resume")
    /\ lost' = Deliver("resume", delivered)
    /\ pc' = "idle"
    /\ remaining' = 0
    /\ slept' = 0
    /\ UNCHANGED <<sessions, drivers, call, found, weather, load_status, cache, run, plan,
                   idx, attempt, result, summary, runs, fetches, lastExc, lastRaised,
                   tables, lap_i, now>>

\* lines 78-81: the loop is over, the resume notification, return (the
\* locals of the call are gone)
WaitResume(delivered) ==
    /\ Sleeping
    /\ remaining = 0
    /\ notes' = Emit("resume")
    /\ lost' = Deliver("resume", delivered)
    /\ pc' = "idle"
    /\ remaining' = 0
    /\ slept' = 0
    /\ UNCHANGED <<sessions, drivers, call, found, weather, load_status, cache, run, plan,
                   idx, attempt, result, summary, runs, fetches, lastExc, lastRaised,
                   tables, lap_i, now>>

GovernorNext ==
    \/ \E tqdm \in BOOLEAN, delivered \in BOOLEAN : WaitPause(tqdm, delivered)
    \/ SleepTqdm
    \/ SleepChunk
    \/ \E delivered \in BOOLEAN : WaitResume(delivered)

\* time.sleep returns and the task's only thread goes on: weak fairness
GovernorSpec == Init /\ [][GovernorNext]_vars /\ WF_vars(GovernorNext)

WaitReturned == pc = "idle" /\ notes = <<"pause", "resume">>

MaxTicks == 3

DataTypes == {"circuit", "weather", "laps", "telemetry"}

\* record_api_call(session_id)
RecordApiCall(session_id) ==
    /\ pc = "idle"
    /\ runs = 0
    /\ now < MaxTicks
    /\ load_status' = record_api_call(load_status, session_id)
    /\ lastRaised' = None
    /\ now' = now + 1
    /\ UNCHANGED <<sessions, drivers, call, found, weather, cache, pc, run, plan, idx,
                   attempt, result, summary, runs, fetches, lastExc, notes, tables,
                   lap_i, remaining, slept, lost>>

\* mark_data_loaded(session_id, data_type)
MarkDataLoaded(session_id, data_type) ==
    /\ pc = "idle"
    /\ runs = 0
    /\ now < MaxTicks
    /\ load_status' = mark_data_loaded(load_status, session_id, data_type)
    /\ lastRaised' = None
    /\ now' = now + 1
    /\ UNCHANGED <<sessions, drivers, call, found, weather, cache, pc, run, plan, idx,
                   attempt, result, summary, runs, fetches, lastExc, notes, tables,
                   lap_i, remaining, slept, lost>>

\* one execution of the body of load_fastf1_session: get_session and load
\* either succeed, and record_api_call follows, or raise exc, and the except
\* clauses re-raise without reaching record_api_call
LoadBody(session_id, exc) ==
    /\ pc = "idle"
    /\ runs = 0
    /\ now < MaxTicks
    /\ load_status' = IF exc = NoExc THEN record_api_call(load_status, session_id)
                      ELSE load_status
    /\ lastExc' = exc
    /\ lastRaised' = IF exc = NoExc THEN None ELSE LoaderRaises(exc)
    /\ now' = now + 1
    /\ UNCHANGED <<sessions, drivers, call, found, weather, cache, pc, run, plan, idx,
                   attempt, result, summary, runs, fetches, notes, tables, lap_i,
                   remaining, slept, lost>>

StatusNext ==
    \/ \E s \in SessionIds : RecordApiCall(s)
    \/ \E s \in SessionIds, t \in DataTypes \cup {"results"} : MarkDataLoaded(s, t)
    \/ \E s \in SessionIds, exc \in ProviderErrors \cup {NoExc} : LoadBody(s, exc)

StatusSpec == Init /\ [][StatusNext]_vars

StatusFlags == {"has_circuit", "has_weather", "has_lap_times", "has_telemetry"}

LoadedAt == {"circuit_loaded_at", "weather_loaded_at", "laps_loaded_at", "telemetry_loaded_at"}

\* the row of session s as a query reads it, NewStatus' values when there is none
StatusOf(ls, s) == IF s \in DOMAIN ls THEN ls[s] ELSE NewStatus

OthersKept(s) ==
    \A x \in (DOMAIN load_status \cup DOMAIN load_status') \ {s} :
        /\ x \in DOMAIN load_status /\ x \in DOMAIN load_status'
        /\ load_status'[x] = load_status[x]

\* what one record_api_call(s) leaves behind
Recorded(s) ==
    IF s \in sessions
    THEN /\ s \in DOMAIN load_status'
         /\ load_status'[s].last_api_call = now
         /\ load_status'[s].last_api_call > StatusOf(load_status, s).last_api_call
         /\ load_status'[s].api_calls_count = StatusOf(load_status, s).api_calls_count + 1
         /\ \A f \in StatusFlags \cup LoadedAt :
                load_status'[s][f] = StatusOf(load_status, s)[f]
         /\ OthersKept(s)
    ELSE load_status' = load_status

\* C22: record_api_call(session_id) for an existing session creates the
\* LoadStatus if absent, sets the last-call timestamp, adds exactly 1 to the
\* call counter and leaves every category flag as it was; for an id without a
\* session it persists nothing and raises nothing; the loader's body calls it
\* once after a successful provider load and not at all after a failed one.
C22_RecordApiCall ==
    [][/\ \A s \in SessionIds :
            RecordApiCall(s) => Recorded(s) /\ lastRaised' = None /\ pc' = pc
       /\ \A s \in SessionIds, exc \in ProviderErrors \cup {NoExc} :
            LoadBody(s, exc) =>
                IF exc = NoExc THEN Recorded(s) /\ lastRaised' = None
                ELSE load_status' = load_status /\ lastRaised' # None]_vars

\* a session whose weather flag was set first and whose two loads were
\* recorded after it
C22_Witness ==
    /\ \E s \in DOMAIN load_status :
        /\ load_status[s].api_calls_count = 2
        /\ load_status[s].has_weather
        /\ load_status[s].last_api_call > load_status[s].weather_loaded_at
    /\ now = MaxTicks

\* ------------------------------------------------------------------------
\* The memo of load_fastf1_session (cache_policy=INPUTS, one hour), with the
\* task called directly with any inputs
\* ------------------------------------------------------------------------
MaxFetches == 2

\* Session.session_type values: the seven of the table, and strings outside it
SessionTypes ==
    {"Practice 1", "Practice 2", "Practice 3", "Qualifying", "Sprint Qualifying",
     "Sprint", "Race", "Sprint Shootout", "race", ""}

\* calls of load_fastf1_session(year, round_num, session_type, session_id,
\* event_name): every combination over three session types, and every
\* session type for the race session of round 1
LoadRequests ==
    [year : {2025}, round_num : {0, 1}, session_type : {"Race", "Sprint Shootout", "Qualifying"},
     session_id : {1, 2}, event_name : {None, "Pre-Season Testing"}]
    \cup [year : {2025}, round_num : {1}, session_type : SessionTypes,
          session_id : {2}, event_name : {None}]

\* the stored result is returned and the task body does not run
LoadHit(inputs) ==
    /\ pc = "idle"
    /\ runs = 0
    /\ inputs \in cache
    /\ result' = [request |-> inputs, payload |-> ProviderRequest(inputs), fetched |-> FALSE]
    /\ UNCHANGED <<sessions, drivers, call, found, weather, load_status, cache, pc, run,
                   plan, idx, attempt, summary, runs, fetches, lastExc, lastRaised, notes,
                   tables, lap_i, standalone, lost>>

\* no stored result for these inputs: get_session and load run, the call is
\* recorded and the result is stored under the inputs
LoadMiss(inputs) ==
    /\ pc = "idle"
    /\ runs = 0
    /\ inputs \notin cache
    /\ fetches < MaxFetches
    /\ fetches' = fetches + 1
    /\ cache' = cache \cup {inputs}
    /\ load_status' = record_api_call(load_status, inputs.session_id)
    /\ result' = [request |-> inputs, payload |-> ProviderRequest(inputs), fetched |-> TRUE]
    /\ UNCHANGED <<sessions, drivers, call, found, weather, pc, run, plan, idx, attempt,
                   summary, runs, lastExc, lastRaised, notes, tables, lap_i, standalone,
                   lost>>

\* cache_expiration=timedelta(hours=1): the entry is gone
MemoExpire(k) ==
    /\ pc = "idle"
    /\ runs = 0
    /\ k \in cache
    /\ cache' = cache \ {k}
    /\ UNCHANGED <<sessions, drivers, call, found, weather, load_status, pc, run, plan,
                   idx, attempt, result, summary, runs, fetches, lastExc, lastRaised,
                   notes, tables, lap_i, standalone, lost>>

MemoNext ==
    \/ \E inputs \in LoadRequests : LoadHit(inputs)
    \/ \E inputs \in LoadRequests : LoadMiss(inputs)
    \/ \E k \in LoadRequests : MemoExpire(k)

MemoSpec == Init /\ [][MemoNext]_vars

\* (year, round or event, provider session code)
MemoTriple(inputs) ==
    LET r == ProviderRequest(inputs)
    IN  [year |-> r.year, event |-> <<r.event_name, r.round_num>>, code |-> r.identifier]

\* C23 as stated: a request whose (year, round or event, provider code) has
\* a live memo entry performs no fetch and gets that entry's payload, a
\* request whose triple has none performs a fetch, and nothing else decides.
C23_MemoKeyedByTriple ==
    [][\A inputs \in LoadRequests :
          /\ LoadMiss(inputs) =>
                ~ \E c \in cache : MemoTriple(c) = MemoTriple(inputs)
          /\ LoadHit(inputs) =>
                \E c \in cache : /\ MemoTriple(c) = MemoTriple(inputs)
                                 /\ result'.payload = ProviderRequest(c)]_vars

\* ------------------------------------------------------------------------
\* get_sessions_without_data and import_weather_flow
\* ------------------------------------------------------------------------
\* "if not force and hasattr(session, 'load_status')": the flag of data_type,
\* False for a type outside the four
HasData(ls, s, data_type, force) ==
    IF ~force /\ s \in DOMAIN ls
    THEN CASE data_type = "circuit"   -> ls[s].has_circuit
           [] data_type = "weather"   -> ls[s].has_weather
           [] data_type = "laps"      -> ls[s].has_lap_times
           [] data_type = "telemetry" -> ls[s].has_telemetry
           [] OTHER -> FALSE
    ELSE FALSE

\* the dict appended for one session (its 'session' and 'race' objects are
\* the rows themselves)
SessionInfo(ls, s, year, data_type, force) ==
    [session_id |-> s,
     session_type |-> SessionRow(s).session_type,
     round_number |-> SessionRow(s).round_number,
     year |-> year,
     has_data |-> HasData(ls, s, data_type, force)]

\* variant: force is not looked at when the session is appended
get_sessions_without_data_unforced(ls, year, data_type, force) ==
    IF year \notin SeasonYears THEN << >>
    ELSE LET all == OrderedSessions(SessionsOfYear(year))
             sel == SelectSeq(all, LAMBDA x : ~HasData(ls, x, data_type, FALSE))
         IN  [i \in 1..Len(sel) |-> SessionInfo(ls, sel[i], year, data_type, force)]

\* get_sessions_without_data(year, data_type, force)
get_sessions_without_data(ls, year, data_type, force) ==
    IF year \notin SeasonYears THEN << >>
    ELSE LET all == OrderedSessions(SessionsOfYear(year))
             sel == SelectSeq(all, LAMBDA x : ~HasData(ls, x, data_type, force) \/ force)
         IN  [i \in 1..Len(sel) |-> SessionInfo(ls, sel[i], year, data_type, force)]

\* session_info.get(key, default)
DictGet(d, key, default) == IF key \in DOMAIN d THEN d[key] ELSE default

\* the load_fastf1_session call of process_session_weather
WeatherLoadInputs(session_info) ==
    LET event_format == DictGet(session_info, "event_format", "conventional")
        event_name == DictGet(session_info, "event_name", None)
        is_testing == event_format = "testing"
    IN  [year |-> session_info.year,
         round_num |-> session_info.round_number,
         session_type |-> session_info.session_type,
         session_id |-> session_info.session_id,
         event_name |-> IF is_testing THEN event_name ELSE None]

\* the summary dict of import_weather_flow
NewWeatherSummary ==
    [sessions_found |-> 0, sessions_processed |-> 0, success |-> 0, failed |-> 0, no_data |-> 0]

\* sum(1 for r in results if r['status'] == ...): one more result
CountWeather(sm, status) ==
    LET s1 == [sm EXCEPT !.sessions_processed = @ + 1]
    IN  CASE status = "success" -> [s1 EXCEPT !.success = @ + 1]
          [] status = "error"   -> [s1 EXCEPT !.failed = @ + 1]
          [] status = "no_data" -> [s1 EXCEPT !.no_data = @ + 1]
          [] OTHER -> s1

\* LoadStatus rows a store can hold before the flow runs: none, or one whose
\* set flags are one of these
InitFlagSets == {{}, {"weather"}, {"circuit"}, {"laps", "telemetry"}}

InitStatus(types) ==
    [NewStatus EXCEPT
        !.has_circuit = "circuit" \in types,
        !.circuit_loaded_at = IF "circuit" \in types THEN 0 ELSE NoTime,
        !.has_weather = "weather" \in types,
        !.weather_loaded_at = IF "weather" \in types THEN 0 ELSE NoTime,
        !.has_lap_times = "laps" \in types,
        !.laps_loaded_at = IF "laps" \in types THEN 0 ELSE NoTime,
        !.has_telemetry = "telemetry" \in types,
        !.telemetry_loaded_at = IF "telemetry" \in types THEN 0 ELSE NoTime]

\* the memo is empty or still holds the race session loaded by a run of the
\* master flow within the last hour
WeatherFlowInit ==
    /\ sessions \in SUBSET SessionIds
    /\ \E D \in SUBSET sessions :
          load_status \in [D -> {InitStatus(t) : t \in InitFlagSets}]
    /\ weather = {s \in DOMAIN load_status : load_status[s].has_weather}
    /\ drivers = Roster
    /\ call = NoCall
    /\ found = NoFound
    /\ cache \in {{}, {LoadInputs(MakeGap(2, 2025))}}
    /\ pc = "idle"
    /\ run = NoRun
    /\ plan = << >>
    /\ idx = 0
    /\ attempt = 0
    /\ result = NewResult
    /\ summary = NewWeatherSummary
    /\ runs = 0
    /\ fetches = 0
    /\ lastExc = NoExc
    /\ lastRaised = None
    /\ notes = << >>
    /\ tables = NoTables
    /\ lap_i = 0
    /\ remaining = 0
    /\ slept = 0
    /\ now = 0
    /\ lost = {}

\* the task called on its own, as discover_data_gaps calls it per data type
GetSessionsWithoutData(year, data_type, force) ==
    /\ pc = "idle"
    /\ runs = 0
    /\ result' = [year |-> year, data_type |-> data_type, force |-> force,
                  sessions |-> get_sessions_without_data(load_status, year, data_type, force)]
    /\ UNCHANGED <<sessions, drivers, call, found, weather, load_status, cache, pc, run,
                   plan, idx, attempt, summary, runs, fetches, lastExc, lastRaised, notes,
                   tables, lap_i, standalone, lost>>

\* import_weather_flow(year, force) up to the loop; an empty list returns
\* the zero summary at once. One flow run per behaviour.
WeatherFlowStart(year, force) ==
    /\ pc = "idle"
    /\ runs = 0
    /\ LET sessions_to_process == get_sessions_without_data(load_status, year, "weather", force)
       IN  /\ plan' = sessions_to_process
           /\ summary' = [NewWeatherSummary EXCEPT !.sessions_found = Len(sessions_to_process)]
           /\ pc' = IF sessions_to_process = << >> THEN "idle" ELSE "weather_flow"
    /\ run' = [year |-> year, round_number |-> NoRound, force |-> force]
    /\ runs' = runs + 1
    /\ idx' = 0
    /\ result' = NewResult
    /\ UNCHANGED <<sessions, drivers, call, found, weather, load_status, cache, attempt,
                   fetches, lastExc, lastRaised, notes, tables, lap_i, standalone,
                   lost>>

\* one pass of the loop: process_session_weather(session_info, force). The
\* load is served from the memo or fetched; exc is what the provider raised
\* on the last attempt (NoExc: it returned), has_weather_data and saved are
\* the outcomes of extract_weather_data and save_weather_to_db
WeatherFlowSession(exc, has_weather_data, saved) ==
    /\ pc = "weather_flow"
    /\ idx < Len(plan)
    /\ LET session_info == plan[idx + 1]
           inputs == WeatherLoadInputs(session_info)
           hit == inputs \in cache
           raised == IF exc = NoExc THEN None ELSE LoaderRaises(exc)
           status == process_session_weather(raised, has_weather_data, saved)
           ls1 == IF hit \/ exc # NoExc THEN load_status
                  ELSE record_api_call(load_status, session_info.session_id)
       IN  /\ hit => exc = NoExc
           /\ cache' = IF exc = NoExc THEN cache \cup {inputs} ELSE cache
           /\ lastRaised' = raised
           /\ load_status' = IF status = "success"
                             THEN mark_data_loaded(ls1, session_info.session_id, "weather")
                             ELSE ls1
           /\ weather' = IF status = "success"
                         THEN weather \cup {session_info.session_id} ELSE weather
           /\ result' = [session_id |-> session_info.session_id, status |-> status,
                         fetched |-> ~hit, request |-> ProviderRequest(inputs)]
           /\ summary' = CountWeather(summary, status)
    /\ idx' = idx + 1
    /\ UNCHANGED <<sessions, drivers, call, found, pc, run, plan, attempt, runs, fetches,
                   lastExc, notes, tables, lap_i, standalone, lost>>

\* the list is exhausted: the summary is returned
WeatherFlowComplete ==
    /\ pc = "weather_flow"
    /\ idx = Len(plan)
    /\ pc' = "idle"
    /\ UNCHANGED <<sessions, drivers, call, found, weather, load_status, cache, run, plan,
                   idx, attempt, result, summary, runs, fetches, lastExc, lastRaised,
                   notes, tables, lap_i, standalone, lost>>

WeatherFlowNext ==
    \/ \E y \in Years, t \in DataTypes \cup {"results"}, f \in BOOLEAN : GetSessionsWithoutData(y, t, f)
    \/ \E y \in Years, f \in BOOLEAN : WeatherFlowStart(y, f)
    \/ \E exc \in ProviderErrors \cup {NoExc}, d \in BOOLEAN, sv \in {"success", "failed"} : WeatherFlowSession(exc, d, sv)
    \/ WeatherFlowComplete

WeatherFlowSpec == WeatherFlowInit /\ [][WeatherFlowNext]_vars

\* C24 as stated: every load the pipeline sends to the provider names the
\* event exactly when the session's race is a testing event, and gives the
\* round number otherwise.
C24_ByNameIffTesting ==
    [][(pc = "weather_flow" /\ idx' = idx + 1 /\ result'.fetched) =>
          (result'.request.by_name
              <=> SessionRow(result'.session_id).event_format = "testing")]_vars

\* ------------------------------------------------------------------------
\* Notifications: the pause taken before the runs of the master flow
\* ------------------------------------------------------------------------
NotifyNext ==
    \/ Next
    \/ GovernorNext

NotifySpec == Init /\ [][NotifyNext]_vars

\* C25: whether or not the pause, the resume or the run-summary notification
\* is delivered, the step that sends it leaves the persisted state alone and
\* goes on as it does after a delivery: the pause starts its sleep of 3600
\* seconds, the resume returns, the run ends 'complete' with the counters it
\* had.
C25_DeliveryFailureIsHarmless ==
    [][/\ (notes' # notes /\ notes' = <<"pause">>) =>
            /\ persisted' = persisted /\ summary' = summary
            /\ Sleeping' /\ remaining' = 3600
       /\ (notes' = notes \o <<"resume">>) =>
            /\ persisted' = persisted /\ summary' = summary
            /\ pc' = "idle" /\ lastRaised' = lastRaised
       /\ (notes' = notes \o <<"complete">>) =>
            /\ persisted' = persisted
            /\ summary' = [summary EXCEPT !.status = "complete"]
            /\ pc' = "idle" /\ lastRaised' = None]_vars

\* a run that processed a session with success has returned 'complete'
\* although its summary notification was not delivered
C25_Witness ==
    /\ pc = "idle"
    /\ summary.status = "complete"
    /\ summary.sessions_succeeded >= 1
    /\ notes = <<"complete">>
    /\ lost = {"complete"}

\* the (round, session number) slots 1..5 of the persisted races of a season
\* that have no Session row
OpenSlots(year) ==
    {<<r, n>> : r \in RaceRounds(year), n \in 1..5} \
        {<<SessionRow(s).round_number, SessionRow(s).session_number>> : s \in SessionsOfYear(year)}

\* C26: detect_missing_sessions(year) returns, each once and ordered by round
\* and then slot, exactly the (round, slot) pairs of the season's persisted
\* races and the slots 1..5 for which no Session row exists, and the empty
\* list when the season does not exist.
C26_MissingSessionSlots ==
    "season_year" \in DOMAIN result =>
        LET ms == result.missing_sessions
        IN  /\ {ms[i] : i \in 1..Len(ms)} = OpenSlots(result.season_year)
            /\ Len(ms) = Cardinality(OpenSlots(result.season_year))
            /\ \A i, j \in 1..Len(ms) :
                  i < j => \/ ms[i][1] < ms[j][1]
                           \/ ms[i][1] = ms[j][1] /\ ms[i][2] < ms[j][2]
            /\ result.season_year \notin SeasonYears => ms = << >>

\* a report for a season with one session of the testing event and two of
\* the first race: four slots of round 0 and three of round 1 are missing
C26_Witness ==
    /\ "season_year" \in DOMAIN result
    /\ sessions = {1, 2, 3}
    /\ result.missing_sessions =
          <<<<0, 2>>, <<0, 3>>, <<0, 4>>, <<0, 5>>, <<1, 1>>, <<1, 2>>, <<1, 3>>>>

\* the table of the seven session types and their provider codes
ProviderCodes ==
    [x \in {"Practice 1", "Practice 2", "Practice 3", "Qualifying", "Sprint Qualifying",
            "Sprint", "Race"} |->
        CASE x = "Practice 1" -> "FP1" [] x = "Practice 2" -> "FP2"
          [] x = "Practice 3" -> "FP3" [] x = "Qualifying" -> "Q"
          [] x = "Sprint Qualifying" -> "SQ" [] x = "Sprint" -> "S"
          [] x = "Race" -> "R"]

\* C27: the code the loader hands to the provider for a request is the
\* table's code for one of the seven session types and "R" for every other
\* string, the empty string included.
C27_SessionCodeTable ==
    "request" \in DOMAIN result =>
        LET t == result.request.session_type
        IN  /\ result.payload.identifier
                 = IF t \in DOMAIN ProviderCodes THEN ProviderCodes[t] ELSE "R"
            /\ get_fastf1_session_identifier(t) = result.payload.identifier

\* a sprint qualifying session was fetched as "SQ" and a session with an
\* empty type has just been fetched as "R"
C27_Witness ==
    /\ "request" \in DOMAIN result
    /\ result.fetched
    /\ result.request.session_type = ""
    /\ result.payload.identifier = "R"
    /\ \E c \in cache : /\ c.session_type = "Sprint Qualifying"
                        /\ ProviderRequest(c).identifier = "SQ"

\* the flag and the timestamp field of a data type
FlagOf == [circuit |-> "has_circuit", weather |-> "has_weather",
           laps |-> "has_lap_times", telemetry |-> "has_telemetry"]

LoadedAtOf == [circuit |-> "circuit_loaded_at", weather |-> "weather_loaded_at",
               laps |-> "laps_loaded_at", telemetry |-> "telemetry_loaded_at"]

\* what one mark_data_loaded(s, t) leaves behind
Marked(s, t) ==
    IF s \in sessions
    THEN /\ s \in DOMAIN load_status'
         /\ load_status'[s][FlagOf[t]]
         /\ load_status'[s][LoadedAtOf[t]] = now
         /\ \A f \in (StatusFlags \ {FlagOf[t]}) \cup (LoadedAt \ {LoadedAtOf[t]})
                     \cup {"api_calls_count", "last_api_call"} :
                load_status'[s][f] = StatusOf(load_status, s)[f]
         /\ OthersKept(s)
    ELSE load_status' = load_status

\* C28: mark_data_loaded(session_id, t) for one of the four data types
\* creates the LoadStatus if absent and sets the flag and the timestamp of t
\* and nothing else: the other three flags and timestamps, the call counter
\* and the last-call timestamp stay; for an id without a session it persists
\* nothing and raises nothing.
C28_MarkDataLoadedFrame ==
    [][\A s \in SessionIds, t \in DataTypes :
          MarkDataLoaded(s, t) => Marked(s, t) /\ lastRaised' = None /\ pc' = pc]_vars

\* a session with one recorded load, then its weather and then its circuit
\* marked, its laps and telemetry still unmarked
C28_Witness ==
    \E s \in DOMAIN load_status :
        /\ load_status[s].api_calls_count = 1
        /\ load_status[s].has_weather /\ load_status[s].has_circuit
        /\ ~load_status[s].has_lap_times /\ ~load_status[s].has_telemetry
        /\ load_status[s].last_api_call < load_status[s].weather_loaded_at
        /\ load_status[s].weather_loaded_at < load_status[s].circuit_loaded_at
        /\ load_status[s].laps_loaded_at = NoTime

\* the sessions of the season a query for data_type must return
WithoutData(year, data_type, force) ==
    {s \in sessions :
        /\ SessionRow(s).year = year /\ year \in SeasonYears
        /\ \/ force
           \/ s \notin DOMAIN load_status
           \/ ~load_status[s][FlagOf[data_type]]}

\* C29: get_sessions_without_data(year, data_type, force) returns, each once
\* and ordered by round and session number, exactly the season's sessions for
\* which force is true or no LoadStatus exists or the flag of data_type is
\* false; for a year without season it returns the empty list.
C29_SessionsWithoutData ==
    ("data_type" \in DOMAIN result /\ result.data_type \in DataTypes) =>
        LET rs == result.sessions
            expected == WithoutData(result.year, result.data_type, result.force)
        IN  /\ {rs[i].session_id : i \in 1..Len(rs)} = expected
            /\ Len(rs) = Cardinality(expected)
            /\ \A i, j \in 1..Len(rs) :
                  i < j => SessionBefore(rs[i].session_id, rs[j].session_id)
            /\ result.year \notin SeasonYears => rs = << >>

\* an unforced circuit query over three sessions: the one flagged for circuit
\* is left out, the one flagged for weather only and the one without
\* LoadStatus are returned in order
C29_Witness ==
    /\ "data_type" \in DOMAIN result
    /\ result.data_type = "circuit" /\ ~result.force /\ result.year = 2025
    /\ sessions = {1, 2, 3}
    /\ 1 \in DOMAIN load_status /\ load_status[1].has_circuit
    /\ 3 \in DOMAIN load_status /\ load_status[3].has_weather
    /\ 2 \notin DOMAIN load_status
    /\ Len(result.sessions) = 2
    /\ result.sessions[1].session_id = 3
    /\ result.sessions[2].session_id = 2

\* ------------------------------------------------------------------------
\* C30: a failing category stops neither the session nor the run
\* ------------------------------------------------------------------------
\* the step that follows each category step of process_session_gap
StepAfter == [drivers |-> "weather", weather |-> "circuit", circuit |-> "telemetry", telemetry |-> "next"]

\* a step of process_session_gap that ends the category at hand without
\* extracting it (its extractor gave nothing, its save failed or raised)
CategoryFails ==
    /\ Extracting
    /\ result'.extracted = result.extracted

\* the sessions of the plan whose process_session_gap has returned
SessionsReturned == IF pc \in {"idle", "next"} THEN idx ELSE idx - 1

\* C30: a category step that fails hands over to the next category of the
\* same session (after telemetry: to the loop, with the session counted and
\* the plan untouched); the summary counts every session that has returned, and
\* when the run returns sessions_processed is the number of planned sessions.
C30_FailureNeverAborts ==
    /\ [][CategoryFails =>
            /\ pc' = StepAfter[pc]
            /\ plan' = plan /\ idx' = idx
            /\ result'.status # "failed"
            /\ summary'.sessions_processed =
                   summary.sessions_processed + (IF pc = "telemetry" THEN 1 ELSE 0)]_vars
    /\ [](pc # "idle" => summary.sessions_processed = SessionsReturned)
    /\ [](pc = "idle" /\ runs >= 1 =>
            /\ summary.status = "complete"
            /\ summary.sessions_processed = Len(plan)
            /\ summary.gaps_detected = Len(plan))

\* a returned first run over two planned sessions: the first session got no
\* weather row (its weather category failed) and still counts as succeeded
\* (partial), the second was attempted afterwards and extracted its weather
C30_Witness ==
    /\ pc = "idle" /\ runs = 1
    /\ summary.status = "complete"
    /\ Len(plan) = 2
    /\ summary.sessions_processed = 2
    /\ summary.sessions_succeeded = 2
    /\ summary.data_extracted.weather = 1
    /\ weather = {plan[2].session_id}

\* ------------------------------------------------------------------------
\* C31: the status process_session_gap returns
\* ------------------------------------------------------------------------
\* the step in which process_session_gap returns: from the load when the
\* loader gave up, otherwise from the telemetry step
GapReturns == pc \in {"load", "telemetry"} /\ pc' = "next"

Has(seq, c) == CountOf(seq, c) >= 1

C32_DriversFirst ==
    /\ [](pc = "drivers" => result = NewResult)
    /\ [](Has(result.extracted, "drivers") => result.extracted[1] = "drivers")
    /\ [](Has(result.failed, "drivers") => result.failed[1] = "drivers")
    /\ [][/\ (pc' = "weather" /\ pc # "weather") => pc = "drivers"
          /\ (pc' = "circuit" /\ pc # "circuit") => pc = "weather"
          /\ (pc' = "telemetry" /\ pc # "telemetry") => pc = "circuit"
          /\ drivers' # drivers => pc = "drivers"
          /\ pc = "drivers" =>
                /\ pc' = "weather"
                /\ weather' = weather /\ load_status' = load_status
                /\ idx' = idx /\ summary' = summary
                /\ result'.status = "success"]_vars

\* the driver save failed and the session still extracted weather and
\* telemetry afterwards
C32_Witness ==
    /\ pc = "next" /\ idx >= 1
    /\ result.failed = <<"drivers">>
    /\ result.status = "partial"
    /\ Has(result.extracted, "weather")
    /\ Has(result.extracted, "telemetry")

RunCanStep ==
    CASE pc = "next" -> ENABLED NextSession \/ ENABLED CompleteRun("off")
      [] pc = "load" -> ENABLED LoadCached \/ ENABLED LoadFetchOk
      [] pc = "drivers" -> ENABLED DriversNone
      [] pc = "weather" -> ENABLED WeatherNone
      [] pc = "circuit" -> ENABLED CircuitNone
      [] pc = "telemetry" -> ENABLED TelemetryNone
      [] OTHER -> pc = "idle"

\* the outcome classes as the summary carries them: only a fully successful
\* session adds to data_extracted, and it always adds its weather
SuccessCount == summary.data_extracted.weather
PartialCount == summary.sessions_succeeded - summary.data_extracted.weather

FlagSet(ls, s, f) == s \in DOMAIN ls /\ ls[s][f]

\* C35: has_weather implies a weather row of the session; a flag that is
\* true stays true; and a flag becomes true only in the step of its category
\* for the session being processed, a step whose save succeeded (the
\* category joins result['extracted'] and nothing joins result['failed']).
C35_FlagsFollowSaves ==
    /\ [](\A s \in SessionIds : FlagSet(load_status, s, "has_weather") => s \in weather)
    /\ [][\A s \in SessionIds, f \in StatusFlags :
            /\ FlagSet(load_status, s, f) => FlagSet(load_status', s, f)
            /\ (~FlagSet(load_status, s, f) /\ FlagSet(load_status', s, f)) =>
                  /\ pc \in Categories
                  /\ f = CategoryFlag[pc]
                  /\ s = gap.session_id
                  /\ result'.extracted = Append(result.extracted, pc)
                  /\ result'.failed = result.failed]_vars

\* a session whose weather save failed and whose circuit save succeeded:
\* has_circuit is set, has_weather is not, and there is no weather row
C35_Witness ==
    /\ pc = "telemetry"
    /\ Has(result.failed, "weather")
    /\ FlagSet(load_status, gap.session_id, "has_circuit")
    /\ ~FlagSet(load_status, gap.session_id, "has_weather")
    /\ gap.session_id \notin weather

\* ------------------------------------------------------------------------
\* C36: nothing is fetched during a rate-limit pause
\* ------------------------------------------------------------------------
\* the pause notification is out and the resume notification is not
PauseOpen == notes # << >> /\ notes[Len(notes)] = "pause"

WholeSeasonUnforced == ~run.force /\ run.round_number = NoRound

\* the step in which a load that was never retried hands its payload on
LoadsUnretried == pc = "load" /\ pc' = "drivers" /\ attempt = 0

\* the report an unforced whole-season run of this year starts from
ReportOf(year) == generate_gap_report(weather, year, NoRound)

\* a whole-season unforced run plans one session per entry of session_gaps,
\* total_api_calls_needed of them
PlansTheEstimate ==
    (pc = "idle" /\ pc' = "next" /\ ~run'.force /\ run'.round_number = NoRound) =>
        /\ Len(plan') = ReportOf(run'.year).total_api_calls_needed
        /\ Len(plan') = Len(ReportOf(run'.year).session_gaps)

sessions_remaining(w, current_year) == Len(get_sessions_to_process(w, current_year, NoRound, FALSE))

\* _send_rate_limit_pause_notification while a run is at its first load (the
\* helper takes the resume time and nothing of the run); result holds the
\* message's fields
SendPauseNotification(current_year, delivered) ==
    /\ Planned
    /\ notes = << >>
    /\ notes' = Emit("pause")
    /\ lost' = Deliver("pause", delivered)
    /\ result' = [kind |-> "pause",
                  sessions_remaining |-> sessions_remaining(weather, current_year)]
    /\ UNCHANGED <<sessions, drivers, call, found, weather, load_status, cache, pc, run,
                   plan, idx, attempt, summary, runs, fetches, lastExc, lastRaised,
                   tables, lap_i, standalone>>

PauseNoteNext ==
    \/ \E y \in Years, r \in RoundFilters, f \in BOOLEAN : StartRun(y, r, f)
    \/ \E y \in Years, d \in BOOLEAN : SendPauseNotification(y, d)

PauseNoteSpec == PlannerInit /\ [][PauseNoteNext]_vars

StatusByTable(t) ==
    [s \in {t.status[i].session : i \in 1..Len(t.status)} |->
        t.status[CHOOSE i \in 1..Len(t.status) : t.status[i].session = s]]

\* the sessions detect_session_data_gaps reports for the season
GapsByRow(t, year) == GapIds(detect_session_data_gaps(WeatherIds(t), year))

\* the sessions get_sessions_without_data(year, 'weather', force=False) returns
GapsByFlag(t, year) ==
    LET rs == get_sessions_without_data(StatusByTable(t), year, "weather", FALSE)
    IN  {rs[i].session_id : i \in 1..Len(rs)}

\* C39 as stated: whenever no flow is running, the sessions without weather
\* row are the sessions whose LoadStatus is absent or has has_weather false.
C39_GapDefinitionsAgree ==
    pc = "idle" => \A year \in Years : GapsByRow(tables, year) = GapsByFlag(tables, year)

====
